---- MODULE Spec2Model ----
(***************************************************************************)
(* RTTIHook: the VFT hook engine (VFTHookTemplate over the HookData        *)
(* header of HookTemplates.h).  Memory is a map from addresses to          *)
(* pointer-sized values; every install (hook) and uninstall (destructor)   *)
(* is a sequence of steps, one per access to shared memory.                *)
(***************************************************************************)
EXTENDS Integers, Sequences, FiniteSets, TLC

\* ------------------------------------------------------------------ bounds
NHandles == 3
NSlots == 1
MaxFaults == 1
NWriters == 3

Handles == 1..NHandles
Slots == 0..(NSlots - 1)
\* the entries of the table in memory: those the callers hook and the one after
TableSlots == 0..NSlots

\* ------------------------------------------------- HookData layout (bytes)
OffMagic == 0
OffMutex == 16
OffContext == 40
OffPrevious == 48
OffFnNew == 56
OffFnHooked == 64
OffExtra == 72
HookBaseSize == 80
\* low dword of the sentinel 0x6B6F6F48696E55 ("UniHook\0")
MAGIC == 1214869077

\* ------------------------------------------------------- address space
PtrSize == 8
PageSize == 4096
TextBase == 4096
FnStride == 256
VftBase == 16384
UserBase == 32768
HeapBase == 65536
\* bytes found in front of an original function (int3 padding), also what a
\* read of recycled memory may return: anything but the sentinel
CodeBytes == 204

SlotAddr(s) == VftBase + PtrSize * s
OrigFn(s) == TextBase + FnStride * (s + 1)
UserFn(h) == UserBase + 16 * h
PageOf(h) == HeapBase + PageSize * h
BodyOf_header(base) == base
BodyOf(base) == base + HookBaseSize
Header(fn) == fn - HookBaseSize

SlotAddrs == {SlotAddr(s) : s \in TableSlots}
Pages == {PageOf(h) : h \in Handles}
FieldOffs == {OffMagic, OffMutex, OffPrevious, OffFnNew, OffFnHooked}
Cells == SlotAddrs
         \cup {p + o : p \in Pages, o \in FieldOffs}
         \cup {Header(OrigFn(s)) + o : s \in TableSlots, o \in {OffMagic, OffMutex, OffPrevious}}

IsPage(a) == a \in Pages
RecAt(a) == (a - HeapBase) \div PageSize
NewMutex(h) == h

VARIABLES
  mem,            \* address -> value: VFT slots, hook headers, bytes before functions
  page,           \* handle -> "none" | "live" | "freed": state of its trampoline page
  allocationBase, \* handle -> VFTHookTemplate::allocationBase (0 = nullptr)
  mutexOwner,     \* mutex instance -> handle holding it (0 = unlocked)
  pc,             \* handle -> position in hook() / ~VFTHookTemplate()
  vftEntry,       \* handle -> the slot address its hook() call was given
  prevHook,       \* local of hook() and of the destructor
  nextHook,       \* local of the destructor
  topHook,        \* local of the destructor
  probe,          \* temporary of the destructor's head search
  mutexRef,       \* the std::mutex& an operation holds (0 = none)
  writeFailed,    \* handle -> an rdataWrite of its current operation returned false
  ub,             \* an operation touched a freed page or a destroyed mutex
  crashed,        \* the process took an access violation
  sequential,     \* environment: operations are called one after another
  faults,         \* environment: VirtualAlloc / VirtualProtect failures still to come
  hist,           \* under sequential use: the calls that have returned, in order
  snapshot,       \* handle -> the slot content its hook() call read first (line 413)
  peers,          \* handle -> the hooks installed when its destructor began ({} if an
                  \* install was in progress then)
  className,      \* handle -> the class name its constructor was given ("" for the
                  \* constructor taking the table pointer)
  protect,        \* page number -> protection flags of the page ("R" | "RWX")
  oldProtect,     \* writer -> the local oldProtect of its rdataWrite call
  wpc,            \* writer -> position in rdataWrite
  wfault,         \* a store of rdataWrite hit a page that was not writable
  variant,        \* the hook type whose asmRaw a caller is running ("" = none)
  at,             \* where that caller is: "tramp" | "fnNew" | "fnHooked" | "caller" |
                  \* "fault" (access violation) | "wild" (jump to no code) | "off"
  ip,             \* index of the next instruction of asmRaw
  regs,           \* the general purpose registers
  cmem,           \* the header fields, the HookContext and the stack
  entered,        \* the functions the trampoline has passed control to, in order
  callAt,         \* a thread calling through a slot: "out" | "body" (in asmRaw before
                  \* call [fnNew]) | "fnNew" | "resume" (in asmRaw after fnNew) | "fault"
  callIn,         \* the hook whose asmRaw that thread is in or returns into (0 = none)
  pe,             \* a PEParser: the image's headers, the loop of parse(), the
                  \* SectionMap, and one isIbo32InSection call with its result
  ibo,            \* an ibo32 built from an address and a base, and what as() and
                  \* ibo32() make of it
  pInfo,          \* PEParser::pInfo: <<>> (empty) or <<image>>
  sectionMap,     \* PEParser::sectionMap: <<>> (empty) or <<names of its sections>>
  lastCall,       \* the last setProcessInfo / parse call and what it returned
  looked,         \* the last getSectionsWithName call since then, and its result
  parsedOnce,     \* some parse has succeeded
  asked,          \* the last containment query by section name since then, and
                  \* its result
  phase,          \* RTTIScanner::scan: "idle" | "sweep" | "returned" | "fault"
  scans,          \* number of scan calls so far
  image,          \* the image being scanned: its headers, the slots of its first
                  \* .rdata section and what lies after them (<<>>: nothing mapped)
  sec,            \* index of the .rdata section the sweep is in
  pCOL,           \* the sweep's slot pointer, as a slot index in that section
  classMap,       \* RTTIScanner::classRTTI: name -> [vft, col]
  scanRet,        \* what the last scan returned
  examined,       \* the slots read as candidate COL pointers by this scan, in order
  derefd,         \* all the slots this scan has dereferenced
  mapAtEntry,     \* classRTTI when this scan was called
  dups,           \* validated candidates whose name was already in classRTTI
  text,           \* the bytes of the .text section under the pattern scan
  curr,           \* the pattern scan's byte pointer, as an offset in the section
  tphase,         \* the pattern scan: "idle" | "scan" | "returned"
  tRet,           \* what the pattern scan returned
  evaluated,      \* the offsets that reached the computation of pVFT
  ivariant,       \* the hook type of the trampoline several invocations run ("" = none)
  inv,            \* thread -> [at, ip, regs] of its call through the slot
  imem,           \* the header fields, the HookContext and the threads' stacks
  expect,         \* thread -> the return addresses of its invocations under way
  lastReturn,     \* the last invocation that ended: whose, where to, where it went
  reentries       \* calls of the slot made from inside fnNew or fnHooked

hookVars == <<mem, page, allocationBase, mutexOwner, pc, vftEntry, prevHook, nextHook,
          topHook, probe, mutexRef, writeFailed, ub, crashed, sequential, faults, hist,
          snapshot, peers>>

\* the state outside hook() and the destructor
rwVars == <<protect, oldProtect, wpc, wfault>>
cpuVars == <<variant, at, ip, regs, cmem, entered>>
callVars == <<callAt, callIn>>
peVars == <<pe, ibo>>
parserVars == <<pInfo, sectionMap, lastCall, looked, parsedOnce>>
scanVars == <<phase, scans, image, sec, pCOL, classMap, scanRet, examined, derefd, mapAtEntry, dups>>
textVars == <<text, curr, tphase, tRet, evaluated>>
invVars == <<ivariant, inv, imem, expect, lastReturn, reentries>>
queryVars == <<asked>>
laterVars == <<parserVars, queryVars, scanVars, textVars, invVars>>
extVars == <<className, rwVars, cpuVars, callVars, peVars, laterVars>>
\* what the constructor by name, rdataWrite and a trampoline leave alone
xName == <<rwVars, cpuVars, callVars, peVars, laterVars>>
xRw == <<hookVars, className, cpuVars, callVars, peVars, laterVars>>
xCpu == <<hookVars, className, rwVars, callVars, peVars, laterVars>>
xCall == <<hookVars, className, rwVars, cpuVars, peVars, laterVars>>
xPe == <<hookVars, className, rwVars, cpuVars, callVars, laterVars>>
earlyVars == <<hookVars, className, rwVars, cpuVars, callVars, peVars>>
xParser == <<earlyVars, scanVars, textVars, invVars>>
xScan == <<earlyVars, queryVars, textVars, invVars>>
xText == <<earlyVars, queryVars, invVars>>
xInv == <<earlyVars, parserVars, queryVars, scanVars, textVars>>
vars == <<hookVars, extVars>>

Zero == [h \in Handles |-> 0]

InitMem == [a \in Cells |->
              IF a \in SlotAddrs THEN OrigFn((a - VftBase) \div PtrSize)
              ELSE IF a >= HeapBase THEN 0
              ELSE CodeBytes]

\* threads inside rdataWrite, each for a slot of its own in one table
Writers == 1..NWriters
RwTarget(w) == VftBase + PtrSize * (w - 1)
PageNo(a) == a \div PageSize

\* no rdataWrite call in progress, the table's page read-only
RwIdle ==
  /\ protect = [n \in {PageNo(RwTarget(w)) : w \in Writers} |-> "R"]
  /\ oldProtect = [w \in Writers |-> "none"]
  /\ wpc = [w \in Writers |-> "call"]
  /\ wfault = FALSE

HookInit ==
  /\ RwIdle
  /\ mem = InitMem
  /\ page = [h \in Handles |-> "none"]
  /\ allocationBase = Zero
  /\ mutexOwner = Zero
  /\ pc = [h \in Handles |-> "idle"]
  /\ vftEntry = Zero
  /\ prevHook = Zero
  /\ nextHook = Zero
  /\ topHook = Zero
  /\ probe = Zero
  /\ mutexRef = Zero
  /\ writeFailed = [h \in Handles |-> FALSE]
  /\ ub = FALSE
  /\ crashed = FALSE
  /\ hist = <<>>
  /\ snapshot = Zero
  /\ peers = [h \in Handles |-> {}]
  /\ className = [h \in Handles |-> ""]
  /\ callAt = "out"
  /\ callIn = 0

\* positions inside hook() and inside the destructor
HookPcs == {"hook_magic", "hook_lock", "hook_reread", "hook_refresh", "hook_wprev",
            "hook_wslot", "hook_unlock", "hook_else", "hook_else_refresh",
            "hook_else_write"}
DtorPcs == {"dtor_walk", "dtor_walk_magic", "dtor_lock", "dtor_read", "dtor_next",
            "dtor_next_write", "dtor_prev", "dtor_prev_hook", "dtor_prev_slot",
            "dtor_unlock", "dtor_free"}

Quiet(h) == pc[h] \in {"idle", "installed", "done"}

\* h may take a step: the process is alive, and under sequential use no other
\* operation is in progress
Turn(h) ==
  /\ ~crashed
  /\ sequential => \A g \in Handles \ {h} : Quiet(g)

\* the call history after the call `op` of handle h has returned
Logged(op, h) == IF sequential THEN Append(hist, <<op, h>>) ELSE hist

Freed(a) == IsPage(a) /\ page[RecAt(a)] = "freed"

\* what a read through pointer a can do: a freed page faults, or has been
\* recycled and yields its old bytes or other bytes
ReadOutcomes(a, isMagic) ==
  IF Freed(a) THEN (IF isMagic THEN {"fault", "stale", "garbage"} ELSE {"fault", "stale"})
  ELSE {"ok"}

\* VirtualProtect of rdataWrite: succeeds, fails before the store, or fails
\* when restoring the flags; on a released page it fails unless recycled
WriteOutcomes(a) ==
  IF Freed(a) THEN {"protectFail", "stale"}
  ELSE IF faults > 0 THEN {"ok", "protectFail", "restoreFail"}
  ELSE {"ok"}

rdataWrite(m, pAddress, pointer, o) ==
  IF o = "protectFail" THEN m ELSE [m EXCEPT ![pAddress] = pointer]

Crash ==
  /\ crashed' = TRUE
  /\ ub' = TRUE
  /\ UNCHANGED <<mem, page, allocationBase, mutexOwner, pc, vftEntry, prevHook, nextHook,
                 topHook, probe, mutexRef, writeFailed, sequential, faults, hist, snapshot, peers>>

\* the bookkeeping of one rdataWrite call of handle h with outcome o at a
WriteEffects(h, a, o) ==
  /\ writeFailed' = [writeFailed EXCEPT ![h] = @ \/ o \in {"protectFail", "restoreFail"}]
  /\ ub' = (ub \/ Freed(a))
  /\ faults' = IF ~Freed(a) /\ o # "ok" THEN faults - 1 ELSE faults

\* hook->hookData.fnHooked of handle h's record
HookedFn(h) == mem[PageOf(h) + OffFnHooked]

\* line 431: the pointer stored into prevHook->hookData.previous
ChainLink_anchor(h) == vftEntry[h]
ChainLink(h) == PageOf(h)

\* line 364: the pointer stored into nextHook->hookData.previous
NextPrevious_anchor(h) == vftEntry[h]
NextPrevious_stale(h) == PageOf(h)
NextPrevious(h) == prevHook[h]

\* lines 370, 373: the function pointer stored when unhooking
UnhookValue_original(h) == InitMem[vftEntry[h]]
UnhookValue(h) == HookedFn(h)

\* line 413: *vftEntry, the content of entry s of the table
SlotValue_table(s) == mem[SlotAddr(0)]
SlotValue(s) == mem[SlotAddr(s)]

\* ------------------------------------------------------------ hook()
\* lines 403-419 of hook() for slot s: allocate, construct, read the slot
hook_alloc(h, s) ==
  /\ \E ok \in (IF faults > 0 THEN BOOLEAN ELSE {TRUE}) :
       IF ~ok
       THEN /\ faults' = faults - 1
            /\ pc' = [pc EXCEPT ![h] = "installed"]
            /\ UNCHANGED <<mem, page, allocationBase, vftEntry, prevHook, snapshot, peers>>
       ELSE /\ page' = [page EXCEPT ![h] = "live"]
            /\ allocationBase' = [allocationBase EXCEPT ![h] = PageOf(h)]
            /\ mem' = [mem EXCEPT ![PageOf(h) + OffMagic] = MAGIC,
                                  ![PageOf(h) + OffMutex] = NewMutex(h),
                                  ![PageOf(h) + OffFnHooked] = SlotValue(s),
                                  ![PageOf(h) + OffPrevious] = SlotAddr(s),
                                  ![PageOf(h) + OffFnNew] = UserFn(h)]
            /\ vftEntry' = [vftEntry EXCEPT ![h] = SlotAddr(s)]
            /\ prevHook' = [prevHook EXCEPT ![h] = Header(SlotValue(s))]
            /\ snapshot' = [snapshot EXCEPT ![h] = SlotValue(s)]
            /\ pc' = [pc EXCEPT ![h] = "hook_magic"]
            /\ UNCHANGED faults
  /\ writeFailed' = [writeFailed EXCEPT ![h] = FALSE]
  /\ UNCHANGED <<mutexOwner, nextHook, topHook, probe, mutexRef, ub, crashed, sequential,
                 hist, peers>>

\* lines 335-338: the constructor taking the table pointer
hook_begin(h) ==
  /\ pc[h] = "idle"
  /\ Turn(h)
  /\ \E s \in Slots : hook_alloc(h, s)
  /\ UNCHANGED extVars

\* the class index after a scan: class name -> pVirtualFunctionTable
classRTTI == [n \in {"Base"} |-> VftBase]
\* the names a caller may pass: one the scan found, one it did not
ClassNames == {"Base", "Nope"}

\* RTTIScanner::getClassRTTI: the table of the class, nullptr (0) if absent
getClassRTTI_first(name) == VftBase
getClassRTTI(name) == IF name \in DOMAIN classRTTI THEN classRTTI[name] ELSE 0

\* lines 321-327: the constructor taking a class name
ctor_name(h) ==
  /\ pc[h] = "idle"
  /\ Turn(h)
  /\ \E name \in ClassNames, s \in Slots :
       /\ className' = [className EXCEPT ![h] = name]
       /\ UNCHANGED xName
       /\ IF getClassRTTI(name) = 0
          THEN /\ pc' = [pc EXCEPT ![h] = "installed"]
               /\ UNCHANGED <<mem, page, allocationBase, mutexOwner, vftEntry, prevHook,
                              nextHook, topHook, probe, mutexRef, writeFailed, ub, crashed,
                              sequential, faults, hist, snapshot, peers>>
          ELSE /\ SlotAddr(s) = getClassRTTI(name) + PtrSize * s
               /\ hook_alloc(h, s)

hook_magic(h) ==
  /\ pc[h] = "hook_magic"
  /\ Turn(h)
  /\ \E o \in ReadOutcomes(prevHook[h], TRUE) :
       IF o = "fault" THEN Crash
       ELSE LET magic == IF o = "garbage" THEN CodeBytes ELSE mem[prevHook[h] + OffMagic]
            IN /\ pc' = [pc EXCEPT ![h] = IF magic = MAGIC THEN "hook_lock" ELSE "hook_else"]
               /\ ub' = (ub \/ o # "ok")
               /\ UNCHANGED <<mem, page, allocationBase, mutexOwner, vftEntry, prevHook,
                              nextHook, topHook, probe, mutexRef, writeFailed, crashed,
                              sequential, faults, hist, snapshot, peers>>
  /\ UNCHANGED extVars

\* mutex.lock() on the mutex that record a holds, then continue at `next`
LockAt(h, a, next) ==
  \E o \in ReadOutcomes(a, FALSE) :
    IF o = "fault" THEN Crash
    ELSE LET m == mem[a + OffMutex]
         IN /\ mutexOwner[m] = 0
            /\ mutexOwner' = [mutexOwner EXCEPT ![m] = h]
            /\ mutexRef' = [mutexRef EXCEPT ![h] = m]
            /\ pc' = [pc EXCEPT ![h] = next]
            /\ ub' = (ub \/ o # "ok")
            /\ UNCHANGED <<mem, page, allocationBase, vftEntry, prevHook, nextHook,
                           topHook, probe, writeFailed, crashed, sequential, faults, hist, snapshot, peers>>

\* mutex.unlock() of the held mutex, which its owner may have destroyed
UnlockTo(h, next, newHist) ==
  \E o \in ReadOutcomes(PageOf(mutexRef[h]), FALSE) :
    IF o = "fault" THEN Crash
    ELSE /\ mutexOwner' = [mutexOwner EXCEPT ![mutexRef[h]] = 0]
         /\ mutexRef' = [mutexRef EXCEPT ![h] = 0]
         /\ pc' = [pc EXCEPT ![h] = next]
         /\ ub' = (ub \/ o # "ok")
         /\ prevHook' = [prevHook EXCEPT ![h] = 0]
         /\ nextHook' = [nextHook EXCEPT ![h] = 0]
         /\ topHook' = [topHook EXCEPT ![h] = 0]
         /\ hist' = newHist
         /\ UNCHANGED <<mem, page, allocationBase, vftEntry, probe, writeFailed, crashed,
                        sequential, faults, snapshot, peers>>

hook_lock(h) ==
  /\ pc[h] = "hook_lock"
  /\ Turn(h)
  /\ LockAt(h, prevHook[h], "hook_reread")
  /\ UNCHANGED extVars

\* lines 426-430: compare fnHooked with the slot, then read the slot again
hook_reread(h) ==
  /\ pc[h] \in {"hook_reread", "hook_refresh"}
  /\ Turn(h)
  /\ IF pc[h] = "hook_reread"
     THEN /\ pc' = [pc EXCEPT ![h] = IF HookedFn(h) # mem[vftEntry[h]]
                                     THEN "hook_refresh" ELSE "hook_wprev"]
          /\ UNCHANGED <<mem, prevHook, snapshot, peers>>
     ELSE /\ mem' = [mem EXCEPT ![PageOf(h) + OffFnHooked] = mem[vftEntry[h]]]
          /\ prevHook' = [prevHook EXCEPT ![h] = Header(mem[vftEntry[h]])]
          /\ pc' = [pc EXCEPT ![h] = "hook_wprev"]
  /\ UNCHANGED <<page, allocationBase, mutexOwner, vftEntry, nextHook, topHook, probe,
                 mutexRef, writeFailed, ub, crashed, sequential, faults, hist, snapshot, peers>>
  /\ UNCHANGED extVars

\* one rdataWrite(pAddress, pointer) whose target lies in the record (or slot,
\* or bytes) at a, then continue at `next`
WriteStep(h, a, pAddress, pointer, next) ==
  \E o \in WriteOutcomes(a) :
    /\ mem' = rdataWrite(mem, pAddress, pointer, o)
    /\ WriteEffects(h, a, o)
    /\ pc' = [pc EXCEPT ![h] = next]
    /\ UNCHANGED <<page, allocationBase, mutexOwner, vftEntry, prevHook, nextHook,
                   topHook, probe, mutexRef, crashed, sequential, hist, snapshot, peers>>

hook_wprev(h) ==
  /\ pc[h] = "hook_wprev"
  /\ Turn(h)
  /\ WriteStep(h, prevHook[h], prevHook[h] + OffPrevious, ChainLink(h), "hook_wslot")
  /\ UNCHANGED extVars

hook_wslot(h) ==
  /\ pc[h] = "hook_wslot"
  /\ Turn(h)
  /\ WriteStep(h, vftEntry[h], vftEntry[h], BodyOf(PageOf(h)), "hook_unlock")
  /\ UNCHANGED extVars

hook_unlock(h) ==
  /\ pc[h] = "hook_unlock"
  /\ Turn(h)
  /\ UnlockTo(h, "installed", Logged("install", h))
  /\ UNCHANGED extVars

\* lines 438-439: the unchained path re-reads the slot without a lock
hook_else(h) ==
  /\ pc[h] \in {"hook_else", "hook_else_refresh"}
  /\ Turn(h)
  /\ IF pc[h] = "hook_else"
     THEN /\ pc' = [pc EXCEPT ![h] = IF HookedFn(h) # mem[vftEntry[h]]
                                     THEN "hook_else_refresh" ELSE "hook_else_write"]
          /\ UNCHANGED mem
     ELSE /\ mem' = [mem EXCEPT ![PageOf(h) + OffFnHooked] = mem[vftEntry[h]]]
          /\ pc' = [pc EXCEPT ![h] = "hook_else_write"]
  /\ UNCHANGED <<page, allocationBase, mutexOwner, vftEntry, prevHook, nextHook, topHook,
                 probe, mutexRef, writeFailed, ub, crashed, sequential, faults, hist, snapshot, peers>>
  /\ UNCHANGED extVars

hook_else_write(h) ==
  /\ pc[h] = "hook_else_write"
  /\ Turn(h)
  /\ \E o \in WriteOutcomes(vftEntry[h]) :
       /\ mem' = rdataWrite(mem, vftEntry[h], BodyOf(PageOf(h)), o)
       /\ WriteEffects(h, vftEntry[h], o)
  /\ pc' = [pc EXCEPT ![h] = "installed"]
  /\ prevHook' = [prevHook EXCEPT ![h] = 0]
  /\ hist' = Logged("install", h)
  /\ UNCHANGED <<page, allocationBase, mutexOwner, vftEntry, nextHook, topHook, probe,
                 mutexRef, crashed, sequential, snapshot, peers>>
  /\ UNCHANGED extVars

\* ------------------------------------------------ ~VFTHookTemplate()
dtor_begin(h) ==
  /\ pc[h] = "installed"
  /\ Turn(h)
  /\ IF allocationBase[h] = 0
     THEN /\ pc' = [pc EXCEPT ![h] = "done"]
          /\ UNCHANGED topHook
     ELSE /\ pc' = [pc EXCEPT ![h] = "dtor_walk"]
          /\ topHook' = [topHook EXCEPT ![h] = allocationBase[h]]
  /\ writeFailed' = [writeFailed EXCEPT ![h] = FALSE]
  /\ peers' = [peers EXCEPT ![h] = IF \E g \in Handles : pc[g] \in HookPcs THEN {}
                                   ELSE {g \in Handles : pc[g] # "idle"}]
  /\ UNCHANGED <<mem, page, allocationBase, mutexOwner, vftEntry, prevHook, nextHook,
                 probe, mutexRef, ub, crashed, sequential, faults, hist, snapshot>>
  /\ UNCHANGED extVars

\* lines 350-352: read topHook->previous, then the magic it points at
dtor_walk(h) ==
  /\ pc[h] \in {"dtor_walk", "dtor_walk_magic"}
  /\ Turn(h)
  /\ LET a == IF pc[h] = "dtor_walk" THEN topHook[h] ELSE probe[h]
     IN \E o \in ReadOutcomes(a, pc[h] = "dtor_walk_magic") :
          IF o = "fault" THEN Crash
          ELSE /\ IF pc[h] = "dtor_walk"
                  THEN /\ probe' = [probe EXCEPT ![h] = mem[a + OffPrevious]]
                       /\ pc' = [pc EXCEPT ![h] = "dtor_walk_magic"]
                       /\ UNCHANGED topHook
                  ELSE LET magic == IF o = "garbage" THEN CodeBytes ELSE mem[a + OffMagic]
                       IN /\ probe' = [probe EXCEPT ![h] = 0]
                          /\ topHook' = [topHook EXCEPT ![h] = IF magic = MAGIC THEN a ELSE @]
                          /\ pc' = [pc EXCEPT ![h] = IF magic = MAGIC THEN "dtor_walk"
                                                     ELSE "dtor_lock"]
               /\ ub' = (ub \/ o # "ok")
               /\ UNCHANGED <<mem, page, allocationBase, mutexOwner, vftEntry, prevHook,
                              nextHook, mutexRef, writeFailed, crashed, sequential, faults, hist, snapshot, peers>>
  /\ UNCHANGED extVars

dtor_lock(h) ==
  /\ pc[h] = "dtor_lock"
  /\ Turn(h)
  /\ LockAt(h, topHook[h], "dtor_read")
  /\ UNCHANGED extVars

\* lines 359-360
dtor_read(h) ==
  /\ pc[h] = "dtor_read"
  /\ Turn(h)
  /\ nextHook' = [nextHook EXCEPT ![h] = Header(HookedFn(h))]
  /\ prevHook' = [prevHook EXCEPT ![h] = mem[PageOf(h) + OffPrevious]]
  /\ pc' = [pc EXCEPT ![h] = "dtor_next"]
  /\ UNCHANGED <<mem, page, allocationBase, mutexOwner, vftEntry, topHook, probe,
                 mutexRef, writeFailed, ub, crashed, sequential, faults, hist, snapshot, peers>>
  /\ UNCHANGED extVars

\* lines 363-365
dtor_next(h) ==
  /\ pc[h] \in {"dtor_next", "dtor_next_write"}
  /\ Turn(h)
  /\ IF pc[h] = "dtor_next"
     THEN \E o \in ReadOutcomes(nextHook[h], TRUE) :
            IF o = "fault" THEN Crash
            ELSE LET magic == IF o = "garbage" THEN CodeBytes
                              ELSE mem[nextHook[h] + OffMagic]
                 IN /\ pc' = [pc EXCEPT ![h] = IF magic = MAGIC THEN "dtor_next_write"
                                               ELSE "dtor_prev"]
                    /\ ub' = (ub \/ o # "ok")
                    /\ UNCHANGED <<mem, page, allocationBase, mutexOwner, vftEntry,
                                   prevHook, nextHook, topHook, probe, mutexRef,
                                   writeFailed, crashed, sequential, faults, hist, snapshot, peers>>
     ELSE WriteStep(h, nextHook[h], nextHook[h] + OffPrevious, NextPrevious(h), "dtor_prev")
  /\ UNCHANGED extVars

\* lines 369-374
dtor_prev(h) ==
  /\ pc[h] \in {"dtor_prev", "dtor_prev_hook", "dtor_prev_slot"}
  /\ Turn(h)
  /\ IF pc[h] = "dtor_prev"
     THEN \E o \in ReadOutcomes(prevHook[h], TRUE) :
            IF o = "fault" THEN Crash
            ELSE LET magic == IF o = "garbage" THEN CodeBytes
                              ELSE mem[prevHook[h] + OffMagic]
                 IN /\ pc' = [pc EXCEPT ![h] = IF magic = MAGIC THEN "dtor_prev_hook"
                                               ELSE "dtor_prev_slot"]
                    /\ ub' = (ub \/ o # "ok")
                    /\ UNCHANGED <<mem, page, allocationBase, mutexOwner, vftEntry,
                                   prevHook, nextHook, topHook, probe, mutexRef,
                                   writeFailed, crashed, sequential, faults, hist, snapshot, peers>>
     ELSE IF pc[h] = "dtor_prev_hook"
     THEN WriteStep(h, prevHook[h], prevHook[h] + OffFnHooked, UnhookValue(h),
                    "dtor_unlock")
     ELSE WriteStep(h, prevHook[h], prevHook[h], UnhookValue(h), "dtor_unlock")
  /\ UNCHANGED extVars

dtor_unlock(h) ==
  /\ pc[h] = "dtor_unlock"
  /\ Turn(h)
  /\ UnlockTo(h, "dtor_free", hist)
  /\ UNCHANGED extVars

\* lines 380-381: ~HookType() destroys the record's mutex, VirtualFree the page
\* an uninstall that would wait until no caller is inside the trampoline
dtor_free_wait(h) ==
  /\ callIn # h
  /\ pc[h] = "dtor_free"
  /\ Turn(h)
  /\ page' = [page EXCEPT ![h] = "freed"]
  /\ pc' = [pc EXCEPT ![h] = "done"]
  /\ hist' = Logged("uninstall", h)
  /\ UNCHANGED <<mem, allocationBase, mutexOwner, vftEntry, prevHook, nextHook, topHook,
                 probe, mutexRef, writeFailed, ub, crashed, sequential, faults, snapshot, peers>>
  /\ UNCHANGED extVars

dtor_free(h) ==
  /\ pc[h] = "dtor_free"
  /\ Turn(h)
  /\ page' = [page EXCEPT ![h] = "freed"]
  /\ pc' = [pc EXCEPT ![h] = "done"]
  /\ hist' = Logged("uninstall", h)
  /\ UNCHANGED <<mem, allocationBase, mutexOwner, vftEntry, prevHook, nextHook, topHook,
                 probe, mutexRef, writeFailed, ub, crashed, sequential, faults, snapshot, peers>>
  /\ UNCHANGED extVars

Next ==
  \E h \in Handles :
    \/ hook_begin(h)
    \/ hook_magic(h)
    \/ hook_lock(h)
    \/ hook_reread(h)
    \/ hook_wprev(h)
    \/ hook_wslot(h)
    \/ hook_unlock(h)
    \/ hook_else(h)
    \/ hook_else_write(h)
    \/ dtor_begin(h)
    \/ dtor_walk(h)
    \/ dtor_lock(h)
    \/ dtor_read(h)
    \/ dtor_next(h)
    \/ dtor_prev(h)
    \/ dtor_unlock(h)
    \/ dtor_free(h)

\* ------------------------------------------------------ rdataWrite
\* line 393: VirtualProtect(pAddress, 8, PAGE_EXECUTE_READWRITE, &oldProtect)
rw_protect(w) ==
  /\ wpc[w] = "call"
  /\ ~wfault
  /\ oldProtect' = [oldProtect EXCEPT ![w] = protect[PageNo(RwTarget(w))]]
  /\ protect' = [protect EXCEPT ![PageNo(RwTarget(w))] = "RWX"]
  /\ wpc' = [wpc EXCEPT ![w] = "store"]
  /\ UNCHANGED <<wfault, xRw>>

\* line 395: the store, an access violation unless the page is writable
rw_store(w) ==
  /\ wpc[w] = "store"
  /\ ~wfault
  /\ wfault' = (protect[PageNo(RwTarget(w))] # "RWX")
  /\ wpc' = [wpc EXCEPT ![w] = "restore"]
  /\ UNCHANGED <<protect, oldProtect, xRw>>

\* line 396: VirtualProtect(pAddress, 8, oldProtect, &oldProtect)
rw_restore(w) ==
  /\ wpc[w] = "restore"
  /\ ~wfault
  /\ protect' = [protect EXCEPT ![PageNo(RwTarget(w))] = oldProtect[w]]
  /\ oldProtect' = [oldProtect EXCEPT ![w] = protect[PageNo(RwTarget(w))]]
  /\ wpc' = [wpc EXCEPT ![w] = "call"]
  /\ UNCHANGED <<wfault, xRw>>

ProtNext == \E w \in Writers : rw_protect(w) \/ rw_store(w) \/ rw_restore(w)

\* ------------------------------------------------------ trampolines
\* The instructions of each asmRaw, decoded from its bytes, one per line of
\* the listing: <<length, operation, register, base of the memory operand,
\* displacement bytes (little endian), field named by the listing for a
\* RIP-relative operand>>.
\* EntryHook::asmRaw (lines 275-291)
asmEntryHook == <<
  <<7, "lea", "r10", "rip", <<209, 255, 255, 255>>, "context">>,
  <<3, "load", "rax", "r10", <<>>, "">>,
  <<4, "store", "rcx", "rax", <<16>>, "">>,
  <<4, "store", "rdx", "rax", <<24>>, "">>,
  <<4, "store", "r8", "rax", <<64>>, "">>,
  <<4, "store", "r9", "rax", <<72>>, "">>,
  <<4, "lea", "rax", "r10", <<84>>, "">>,
  <<4, "xchg", "rax", "rsp", <<>>, "">>,
  <<4, "store", "rax", "r10", <<32>>, "">>,
  <<6, "jmp", "", "rip", <<188, 255, 255, 255>>, "fnNew">>,
  <<7, "load", "r10", "rip", <<165, 255, 255, 255>>, "context">>,
  <<4, "load", "rcx", "r10", <<16>>, "">>,
  <<4, "load", "rdx", "r10", <<24>>, "">>,
  <<4, "load", "r8", "r10", <<64>>, "">>,
  <<4, "load", "r9", "r10", <<72>>, "">>,
  <<6, "push", "", "rip", <<175, 255, 255, 255>>, "extra">>,
  <<6, "jmp", "", "rip", <<161, 255, 255, 255>>, "fnHooked">>>>

\* ExitHook::asmRaw (lines 307-326)
asmExitHook == <<
  <<7, "lea", "r10", "rip", <<209, 255, 255, 255>>, "context">>,
  <<3, "load", "rax", "r10", <<>>, "">>,
  <<4, "store", "rcx", "rax", <<16>>, "">>,
  <<4, "store", "rdx", "rax", <<24>>, "">>,
  <<4, "store", "r8", "rax", <<64>>, "">>,
  <<4, "store", "r9", "rax", <<72>>, "">>,
  <<4, "lea", "rax", "r10", <<84>>, "">>,
  <<4, "xchg", "rax", "rsp", <<>>, "">>,
  <<4, "store", "rax", "r10", <<32>>, "">>,
  <<6, "jmp", "", "rip", <<196, 255, 255, 255>>, "fnHooked">>,
  <<7, "load", "r10", "rip", <<165, 255, 255, 255>>, "context">>,
  <<3, "store", "rax", "r10", <<>>, "">>,
  <<4, "load", "rcx", "r10", <<16>>, "">>,
  <<4, "load", "rdx", "r10", <<24>>, "">>,
  <<4, "load", "r8", "r10", <<64>>, "">>,
  <<4, "load", "r9", "r10", <<72>>, "">>,
  <<6, "call", "", "rip", <<156, 255, 255, 255>>, "fnNew">>,
  <<7, "load", "rax", "rip", <<133, 255, 255, 255>>, "context">>,
  <<3, "load", "rax", "rax", <<>>, "">>,
  <<6, "jmp", "", "rip", <<156, 255, 255, 255>>, "extra">>>>

\* ReturnHook::asmRaw (lines 342-358)
asmReturnHook == <<
  <<7, "lea", "r10", "rip", <<209, 255, 255, 255>>, "context">>,
  <<3, "load", "rax", "r10", <<>>, "">>,
  <<4, "store", "rcx", "rax", <<16>>, "">>,
  <<4, "store", "rdx", "rax", <<24>>, "">>,
  <<4, "store", "r8", "rax", <<64>>, "">>,
  <<4, "store", "r9", "rax", <<72>>, "">>,
  <<4, "lea", "rax", "r10", <<84>>, "">>,
  <<4, "xchg", "rax", "rsp", <<>>, "">>,
  <<4, "store", "rax", "r10", <<32>>, "">>,
  <<6, "jmp", "", "rip", <<196, 255, 255, 255>>, "fnHooked">>,
  <<7, "load", "r10", "rip", <<165, 255, 255, 255>>, "context">>,
  <<4, "load", "rcx", "r10", <<16>>, "">>,
  <<4, "load", "rdx", "r10", <<24>>, "">>,
  <<4, "load", "r8", "r10", <<64>>, "">>,
  <<4, "load", "r9", "r10", <<72>>, "">>,
  <<6, "push", "", "rip", <<175, 255, 255, 255>>, "extra">>,
  <<6, "jmp", "", "rip", <<153, 255, 255, 255>>, "fnNew">>>>

\* ContextHook::asmRaw (lines 376-413)
asmContextHook == <<
  <<1, "pushr", "rax", "", <<>>, "">>,
  <<7, "load", "rax", "rip", <<208, 255, 255, 255>>, "context">>,
  <<2, "pop", "", "rax", <<>>, "">>,
  <<4, "store", "rbx", "rax", <<8>>, "">>,
  <<4, "store", "rcx", "rax", <<16>>, "">>,
  <<4, "store", "rdx", "rax", <<24>>, "">>,
  <<4, "store", "rsp", "rax", <<32>>, "">>,
  <<4, "store", "rbp", "rax", <<40>>, "">>,
  <<4, "store", "rsi", "rax", <<48>>, "">>,
  <<4, "store", "rdi", "rax", <<56>>, "">>,
  <<4, "store", "r8", "rax", <<64>>, "">>,
  <<4, "store", "r9", "rax", <<72>>, "">>,
  <<4, "store", "r10", "rax", <<80>>, "">>,
  <<4, "store", "r11", "rax", <<88>>, "">>,
  <<4, "store", "r12", "rax", <<96>>, "">>,
  <<4, "store", "r13", "rax", <<104>>, "">>,
  <<4, "store", "r14", "rax", <<112>>, "">>,
  <<4, "store", "r15", "rax", <<120>>, "">>,
  <<3, "movr", "rcx", "rax", <<>>, "">>,
  <<7, "lea", "rax", "rip", <<17, 0, 0, 0>>, "">>,
  <<4, "xchg", "rax", "rsp", <<>>, "">>,
  <<7, "xchg", "rax", "rip", <<157, 255, 255, 255>>, "extra">>,
  <<6, "jmp", "", "rip", <<135, 255, 255, 255>>, "fnNew">>,
  <<7, "load", "rax", "rip", <<112, 255, 255, 255>>, "context">>,
  <<4, "load", "rbx", "rax", <<8>>, "">>,
  <<4, "load", "rcx", "rax", <<16>>, "">>,
  <<4, "load", "rdx", "rax", <<24>>, "">>,
  <<4, "load", "rbp", "rax", <<40>>, "">>,
  <<4, "load", "rsi", "rax", <<48>>, "">>,
  <<4, "load", "rdi", "rax", <<56>>, "">>,
  <<4, "load", "r8", "rax", <<64>>, "">>,
  <<4, "load", "r9", "rax", <<72>>, "">>,
  <<4, "load", "r12", "rax", <<96>>, "">>,
  <<4, "load", "r13", "rax", <<104>>, "">>,
  <<4, "load", "r14", "rax", <<112>>, "">>,
  <<4, "load", "r15", "rax", <<120>>, "">>,
  <<6, "push", "", "rip", <<90, 255, 255, 255>>, "extra">>,
  <<6, "jmp", "", "rip", <<76, 255, 255, 255>>, "fnHooked">>>>

\* EntryHookV::asmRaw (lines 428-456)
asmEntryHookV == <<
  <<7, "lea", "r10", "rip", <<209, 255, 255, 255>>, "context">>,
  <<3, "load", "rax", "r10", <<>>, "">>,
  <<4, "store", "rcx", "rax", <<16>>, "">>,
  <<4, "store", "rdx", "rax", <<24>>, "">>,
  <<4, "store", "r8", "rax", <<64>>, "">>,
  <<4, "store", "r9", "rax", <<72>>, "">>,
  <<7, "movaps_st", "xmm0", "rax", <<128, 0, 0, 0>>, "">>,
  <<7, "movaps_st", "xmm1", "rax", <<160, 0, 0, 0>>, "">>,
  <<7, "movaps_st", "xmm2", "rax", <<192, 0, 0, 0>>, "">>,
  <<7, "movaps_st", "xmm3", "rax", <<224, 0, 0, 0>>, "">>,
  <<7, "movaps_st", "xmm4", "rax", <<0, 1, 0, 0>>, "">>,
  <<7, "movaps_st", "xmm5", "rax", <<32, 1, 0, 0>>, "">>,
  <<4, "lea", "rax", "r10", <<126>>, "">>,
  <<4, "xchg", "rax", "rsp", <<>>, "">>,
  <<4, "store", "rax", "r10", <<32>>, "">>,
  <<6, "jmp", "", "rip", <<146, 255, 255, 255>>, "fnNew">>,
  <<7, "load", "rax", "rip", <<123, 255, 255, 255>>, "context">>,
  <<4, "load", "rcx", "rax", <<16>>, "">>,
  <<4, "load", "rdx", "rax", <<24>>, "">>,
  <<4, "load", "r8", "rax", <<64>>, "">>,
  <<4, "load", "r9", "rax", <<72>>, "">>,
  <<7, "movaps_ld", "xmm0", "rax", <<128, 0, 0, 0>>, "">>,
  <<7, "movaps_ld", "xmm1", "rax", <<160, 0, 0, 0>>, "">>,
  <<7, "movaps_ld", "xmm2", "rax", <<192, 0, 0, 0>>, "">>,
  <<7, "movaps_ld", "xmm3", "rax", <<224, 0, 0, 0>>, "">>,
  <<7, "movaps_ld", "xmm4", "rax", <<0, 1, 0, 0>>, "">>,
  <<7, "movaps_ld", "xmm5", "rax", <<32, 1, 0, 0>>, "">>,
  <<6, "push", "", "rip", <<91, 255, 255, 255>>, "extra">>,
  <<6, "jmp", "", "rip", <<77, 255, 255, 255>>, "fnHooked">>>>

\* ExitHookV::asmRaw (lines 472-512)
asmExitHookV == <<
  <<7, "lea", "r10", "rip", <<209, 255, 255, 255>>, "context">>,
  <<3, "load", "rax", "r10", <<>>, "">>,
  <<4, "store", "rcx", "rax", <<16>>, "">>,
  <<4, "store", "rdx", "rax", <<24>>, "">>,
  <<4, "store", "r8", "rax", <<64>>, "">>,
  <<4, "store", "r9", "rax", <<72>>, "">>,
  <<7, "movaps_st", "xmm0", "rax", <<128, 0, 0, 0>>, "">>,
  <<7, "movaps_st", "xmm1", "rax", <<160, 0, 0, 0>>, "">>,
  <<7, "movaps_st", "xmm2", "rax", <<192, 0, 0, 0>>, "">>,
  <<7, "movaps_st", "xmm3", "rax", <<224, 0, 0, 0>>, "">>,
  <<7, "movaps_st", "xmm4", "rax", <<0, 1, 0, 0>>, "">>,
  <<7, "movaps_st", "xmm5", "rax", <<32, 1, 0, 0>>, "">>,
  <<4, "lea", "rax", "r10", <<126>>, "">>,
  <<4, "xchg", "rax", "rsp", <<>>, "">>,
  <<4, "store", "rax", "r10", <<32>>, "">>,
  <<6, "jmp", "", "rip", <<154, 255, 255, 255>>, "fnHooked">>,
  <<7, "load", "r10", "rip", <<123, 255, 255, 255>>, "context">>,
  <<3, "store", "rax", "r10", <<>>, "">>,
  <<4, "load", "rcx", "rax", <<16>>, "">>,
  <<4, "load", "rdx", "rax", <<24>>, "">>,
  <<4, "load", "r8", "rax", <<64>>, "">>,
  <<4, "load", "r9", "rax", <<72>>, "">>,
  <<3, "movr", "rax", "r10", <<>>, "">>,
  <<7, "movaps_st", "xmm0", "rax", <<64, 1, 0, 0>>, "">>,
  <<7, "movaps_st", "xmm1", "rax", <<96, 1, 0, 0>>, "">>,
  <<7, "movaps_st", "xmm2", "rax", <<128, 1, 0, 0>>, "">>,
  <<7, "movaps_st", "xmm3", "rax", <<160, 1, 0, 0>>, "">>,
  <<7, "movaps_ld", "xmm0", "rax", <<128, 0, 0, 0>>, "">>,
  <<7, "movaps_ld", "xmm1", "rax", <<160, 0, 0, 0>>, "">>,
  <<7, "movaps_ld", "xmm2", "rax", <<192, 0, 0, 0>>, "">>,
  <<7, "movaps_ld", "xmm3", "rax", <<224, 0, 0, 0>>, "">>,
  <<7, "movaps_ld", "xmm4", "rax", <<0, 1, 0, 0>>, "">>,
  <<7, "movaps_ld", "xmm5", "rax", <<32, 1, 0, 0>>, "">>,
  <<6, "call", "", "rip", <<69, 255, 255, 255>>, "fnNew">>,
  <<7, "load", "rax", "rip", <<18, 255, 255, 255>>, "context">>,
  <<7, "movaps_ld", "xmm0", "rax", <<64, 1, 0, 0>>, "">>,
  <<7, "movaps_ld", "xmm1", "rax", <<96, 1, 0, 0>>, "">>,
  <<7, "movaps_ld", "xmm2", "rax", <<128, 1, 0, 0>>, "">>,
  <<7, "movaps_ld", "xmm3", "rax", <<160, 1, 0, 0>>, "">>,
  <<3, "load", "rax", "rax", <<>>, "">>,
  <<6, "jmp", "", "rip", <<13, 255, 255, 255>>, "extra">>>>

\* ReturnHookV::asmRaw (lines 528-558)
asmReturnHookV == <<
  <<7, "lea", "r10", "rip", <<209, 255, 255, 255>>, "context">>,
  <<3, "load", "rax", "r10", <<>>, "">>,
  <<4, "store", "rcx", "rax", <<16>>, "">>,
  <<4, "store", "rdx", "rax", <<24>>, "">>,
  <<4, "store", "r8", "rax", <<64>>, "">>,
  <<4, "store", "r9", "rax", <<72>>, "">>,
  <<7, "movaps_st", "xmm0", "rax", <<128, 0, 0, 0>>, "">>,
  <<7, "movaps_st", "xmm1", "rax", <<160, 0, 0, 0>>, "">>,
  <<7, "movaps_st", "xmm2", "rax", <<192, 0, 0, 0>>, "">>,
  <<7, "movaps_st", "xmm3", "rax", <<224, 0, 0, 0>>, "">>,
  <<7, "movaps_st", "xmm4", "rax", <<0, 1, 0, 0>>, "">>,
  <<7, "movaps_st", "xmm5", "rax", <<32, 1, 0, 0>>, "">>,
  <<4, "lea", "rax", "r10", <<126>>, "">>,
  <<4, "xchg", "rax", "rsp", <<>>, "">>,
  <<4, "store", "rax", "r10", <<32>>, "">>,
  <<6, "jmp", "", "rip", <<154, 255, 255, 255>>, "fnHooked">>,
  <<7, "load", "r10", "rip", <<123, 255, 255, 255>>, "context">>,
  <<3, "store", "rax", "r10", <<>>, "">>,
  <<4, "load", "rcx", "r10", <<16>>, "">>,
  <<4, "load", "rdx", "r10", <<24>>, "">>,
  <<4, "load", "r8", "r10", <<64>>, "">>,
  <<4, "load", "r9", "r10", <<72>>, "">>,
  <<3, "movr", "rax", "r10", <<>>, "">>,
  <<7, "movaps_ld", "xmm0", "rax", <<128, 0, 0, 0>>, "">>,
  <<7, "movaps_ld", "xmm1", "rax", <<160, 0, 0, 0>>, "">>,
  <<7, "movaps_ld", "xmm2", "rax", <<192, 0, 0, 0>>, "">>,
  <<7, "movaps_ld", "xmm3", "rax", <<224, 0, 0, 0>>, "">>,
  <<7, "movaps_ld", "xmm4", "rax", <<0, 1, 0, 0>>, "">>,
  <<7, "movaps_ld", "xmm5", "rax", <<32, 1, 0, 0>>, "">>,
  <<6, "push", "", "rip", <<85, 255, 255, 255>>, "extra">>,
  <<6, "jmp", "", "rip", <<63, 255, 255, 255>>, "fnNew">>>>

\* ContextHookV::asmRaw (lines 577-646)
asmContextHookV == <<
  <<1, "pushr", "rax", "", <<>>, "">>,
  <<7, "load", "rax", "rip", <<208, 255, 255, 255>>, "context">>,
  <<2, "pop", "", "rax", <<>>, "">>,
  <<4, "store", "rbx", "rax", <<8>>, "">>,
  <<4, "store", "rcx", "rax", <<16>>, "">>,
  <<4, "store", "rdx", "rax", <<24>>, "">>,
  <<4, "store", "rsp", "rax", <<32>>, "">>,
  <<4, "store", "rbp", "rax", <<40>>, "">>,
  <<4, "store", "rsi", "rax", <<48>>, "">>,
  <<4, "store", "rdi", "rax", <<56>>, "">>,
  <<4, "store", "r8", "rax", <<64>>, "">>,
  <<4, "store", "r9", "rax", <<72>>, "">>,
  <<4, "store", "r10", "rax", <<80>>, "">>,
  <<4, "store", "r11", "rax", <<88>>, "">>,
  <<4, "store", "r12", "rax", <<96>>, "">>,
  <<4, "store", "r13", "rax", <<104>>, "">>,
  <<4, "store", "r14", "rax", <<112>>, "">>,
  <<4, "store", "r15", "rax", <<120>>, "">>,
  <<7, "movaps_st", "xmm0", "rax", <<128, 0, 0, 0>>, "">>,
  <<7, "movaps_st", "xmm1", "rax", <<160, 0, 0, 0>>, "">>,
  <<7, "movaps_st", "xmm2", "rax", <<192, 0, 0, 0>>, "">>,
  <<7, "movaps_st", "xmm3", "rax", <<224, 0, 0, 0>>, "">>,
  <<7, "movaps_st", "xmm4", "rax", <<0, 1, 0, 0>>, "">>,
  <<7, "movaps_st", "xmm5", "rax", <<32, 1, 0, 0>>, "">>,
  <<7, "movaps_st", "xmm6", "rax", <<64, 1, 0, 0>>, "">>,
  <<7, "movaps_st", "xmm7", "rax", <<96, 1, 0, 0>>, "">>,
  <<8, "movaps_st", "xmm8", "rax", <<128, 1, 0, 0>>, "">>,
  <<8, "movaps_st", "xmm9", "rax", <<160, 1, 0, 0>>, "">>,
  <<8, "movaps_st", "xmm10", "rax", <<192, 1, 0, 0>>, "">>,
  <<8, "movaps_st", "xmm11", "rax", <<224, 1, 0, 0>>, "">>,
  <<8, "movaps_st", "xmm12", "rax", <<0, 2, 0, 0>>, "">>,
  <<8, "movaps_st", "xmm13", "rax", <<32, 2, 0, 0>>, "">>,
  <<8, "movaps_st", "xmm14", "rax", <<64, 2, 0, 0>>, "">>,
  <<8, "movaps_st", "xmm15", "rax", <<96, 2, 0, 0>>, "">>,
  <<3, "movr", "rcx", "rax", <<>>, "">>,
  <<7, "lea", "rax", "rip", <<17, 0, 0, 0>>, "">>,
  <<4, "xchg", "rax", "rsp", <<>>, "">>,
  <<7, "xchg", "rax", "rip", <<37, 255, 255, 255>>, "extra">>,
  <<6, "jmp", "", "rip", <<15, 255, 255, 255>>, "fnNew">>,
  <<7, "load", "rax", "rip", <<248, 254, 255, 255>>, "context">>,
  <<4, "load", "rbx", "rax", <<8>>, "">>,
  <<4, "load", "rcx", "rax", <<16>>, "">>,
  <<4, "load", "rdx", "rax", <<24>>, "">>,
  <<4, "load", "rbp", "rax", <<40>>, "">>,
  <<4, "load", "rsi", "rax", <<48>>, "">>,
  <<4, "load", "rdi", "rax", <<56>>, "">>,
  <<4, "load", "r8", "rax", <<64>>, "">>,
  <<4, "load", "r9", "rax", <<72>>, "">>,
  <<4, "load", "r12", "rax", <<96>>, "">>,
  <<4, "load", "r13", "rax", <<104>>, "">>,
  <<4, "load", "r14", "rax", <<112>>, "">>,
  <<4, "load", "r15", "rax", <<120>>, "">>,
  <<7, "movaps_ld", "xmm0", "rax", <<128, 0, 0, 0>>, "">>,
  <<7, "movaps_ld", "xmm1", "rax", <<160, 0, 0, 0>>, "">>,
  <<7, "movaps_ld", "xmm2", "rax", <<192, 0, 0, 0>>, "">>,
  <<7, "movaps_ld", "xmm3", "rax", <<224, 0, 0, 0>>, "">>,
  <<7, "movaps_ld", "xmm4", "rax", <<0, 1, 0, 0>>, "">>,
  <<7, "movaps_ld", "xmm5", "rax", <<32, 1, 0, 0>>, "">>,
  <<7, "movaps_ld", "xmm6", "rax", <<64, 1, 0, 0>>, "">>,
  <<7, "movaps_ld", "xmm7", "rax", <<96, 1, 0, 0>>, "">>,
  <<8, "movaps_ld", "xmm8", "rax", <<128, 1, 0, 0>>, "">>,
  <<8, "movaps_ld", "xmm9", "rax", <<160, 1, 0, 0>>, "">>,
  <<8, "movaps_ld", "xmm10", "rax", <<192, 1, 0, 0>>, "">>,
  <<8, "movaps_ld", "xmm11", "rax", <<224, 1, 0, 0>>, "">>,
  <<8, "movaps_ld", "xmm12", "rax", <<0, 2, 0, 0>>, "">>,
  <<8, "movaps_ld", "xmm13", "rax", <<32, 2, 0, 0>>, "">>,
  <<8, "movaps_ld", "xmm14", "rax", <<64, 2, 0, 0>>, "">>,
  <<8, "movaps_ld", "xmm15", "rax", <<96, 2, 0, 0>>, "">>,
  <<6, "push", "", "rip", <<106, 254, 255, 255>>, "extra">>,
  <<6, "jmp", "", "rip", <<92, 254, 255, 255>>, "fnHooked">>>>

Variants == {"EntryHook", "ExitHook", "ReturnHook", "ContextHook",
             "EntryHookV", "ExitHookV", "ReturnHookV", "ContextHookV"}
asmRaw(v) ==
  CASE v = "EntryHook" -> asmEntryHook
    [] v = "ExitHook" -> asmExitHook
    [] v = "ReturnHook" -> asmReturnHook
    [] v = "ContextHook" -> asmContextHook
    [] v = "EntryHookV" -> asmEntryHookV
    [] v = "ExitHookV" -> asmExitHookV
    [] v = "ReturnHookV" -> asmReturnHookV
    [] v = "ContextHookV" -> asmContextHookV

Regs == {"rax", "rbx", "rcx", "rdx", "rsp", "rbp", "rsi", "rdi",
         "r8", "r9", "r10", "r11", "r12", "r13", "r14", "r15"}
\* the registers a callee may change (Microsoft x64 convention)
Volatile == {"rax", "rcx", "rdx", "r8", "r9", "r10", "r11"}
ArgRegs == {"rcx", "rdx", "r8", "r9"}

\* the trampoline a caller runs, its HookContext, the caller's stack and code
TrampBody == BodyOf(PageOf(1))
CtxAddr == HeapBase - PageSize
CtxSize == 16 * PtrSize + 16 * 4 * PtrSize
StackBase == UserBase + PageSize
RetCaller == TextBase + PtrSize
FnNewAddr == UserFn(1)
FnHookedAddr == OrigFn(0)
HeaderCells == {Header(TrampBody) + o : o \in {OffContext, OffPrevious, OffFnNew, OffFnHooked, OffExtra}}
CtxCells == {CtxAddr + PtrSize * k : k \in 0..15}
StackCells == {StackBase - PtrSize * k : k \in 1..6}
CpuCells == HeaderCells \cup CtxCells \cup StackCells

\* the values a callee leaves in the volatile registers, and in rax
ClobberVals == {0, CodeBytes}
RaxVals == {0, CtxAddr}

\* register values at the entry of the trampoline: each register its own
EntryRegs ==
  [r \in Regs |->
     CASE r = "rsp" -> StackBase - 3 * PtrSize
       [] r = "rax" -> 1 [] r = "rbx" -> 2 [] r = "rcx" -> 3 [] r = "rdx" -> 4
       [] r = "rbp" -> 5 [] r = "rsi" -> 6 [] r = "rdi" -> 7 [] r = "r8" -> 8
       [] r = "r9" -> 9 [] r = "r10" -> 10 [] r = "r11" -> 11 [] r = "r12" -> 12
       [] r = "r13" -> 13 [] r = "r14" -> 14 [] r = "r15" -> 15]

EntryMem ==
  [a \in CpuCells |->
     CASE a = Header(TrampBody) + OffContext -> CtxAddr
       [] a = Header(TrampBody) + OffPrevious -> SlotAddr(0)
       [] a = Header(TrampBody) + OffFnNew -> FnNewAddr
       [] a = Header(TrampBody) + OffFnHooked -> FnHookedAddr
       [] a = StackBase - 3 * PtrSize -> RetCaller
       [] OTHER -> 0]

\* no caller is inside a trampoline
CpuOff ==
  /\ variant = ""
  /\ at = "off"
  /\ ip = 0
  /\ regs = EntryRegs
  /\ cmem = EntryMem
  /\ entered = <<>>

\* a call through the slot has just arrived at the first byte of asmRaw
CpuEntry ==
  /\ variant \in Variants
  /\ at = "tramp"
  /\ ip = 1
  /\ regs = EntryRegs
  /\ cmem = EntryMem
  /\ entered = <<>>

\* a displacement of one or four bytes as the signed number it encodes
SignedOf(d) ==
  IF d = <<>> THEN 0
  ELSE IF Len(d) = 1 THEN (IF d[1] >= 128 THEN d[1] - 256 ELSE d[1])
  ELSE (IF d[4] >= 128 THEN d[4] - 256 ELSE d[4]) * 16777216
         + d[3] * 65536 + d[2] * 256 + d[1]

\* offset in asmRaw of instruction k (k - 1 instructions lie before it)
RECURSIVE OffsetOf(_, _)
OffsetOf(code, k) == IF k = 1 THEN 0 ELSE OffsetOf(code, k - 1) + code[k - 1][1]

\* the address of the memory operand of instruction k: RIP-relative operands
\* count from the end of the instruction
EffAddr(code, k, r) ==
  IF code[k][4] = "rip" THEN TrampBody + OffsetOf(code, k + 1) + SignedOf(code[k][5])
  ELSE r[code[k][4]] + SignedOf(code[k][5])

\* the memory a trampoline may touch besides CpuCells: the SIMD part of the
\* HookContext and its own bytes (neither holds modelled values)
InCtx(a) == CtxAddr <= a /\ a < CtxAddr + CtxSize
InCode(v, a) == TrampBody <= a /\ a < TrampBody + OffsetOf(asmRaw(v), Len(asmRaw(v)) + 1)

\* a read of address a: a modelled cell, bytes of the trampoline itself, or
\* memory nobody set up (access violation, or whatever lies there)
LoadOutcomes(v, a) ==
  IF a \in CpuCells \/ InCode(v, a) \/ InCtx(a) THEN {"ok"} ELSE {"fault", "garbage"}
Loaded(a, o) == IF o = "ok" /\ a \in CpuCells THEN cmem[a] ELSE CodeBytes
Stored(m, a, val) == IF a \in CpuCells THEN [m EXCEPT ![a] = val] ELSE m

\* where a jump, call or return to address t continues
Landing(v, t) ==
  IF t = FnNewAddr THEN "fnNew"
  ELSE IF t = FnHookedAddr THEN "fnHooked"
  ELSE IF t = RetCaller THEN "caller"
  ELSE IF \E k \in 1..Len(asmRaw(v)) : TrampBody + OffsetOf(asmRaw(v), k) = t THEN "tramp"
  ELSE "wild"
LandingIp(v, t) ==
  IF Landing(v, t) = "tramp"
  THEN CHOOSE k \in 1..Len(asmRaw(v)) : TrampBody + OffsetOf(asmRaw(v), k) = t
  ELSE 0
Goto(t) ==
  /\ at' = Landing(variant, t)
  /\ ip' = LandingIp(variant, t)
  /\ entered' = IF Landing(variant, t) \in {"fnNew", "fnHooked"}
                THEN Append(entered, Landing(variant, t)) ELSE entered

\* one instruction of asmRaw
tramp_step ==
  /\ at = "tramp"
  /\ LET code == asmRaw(variant)
         ins == code[ip]
         op == ins[2]
         r == ins[3]
         a == IF op \in {"pushr", "movr"} THEN 0 ELSE EffAddr(code, ip, regs)
         sp == regs["rsp"]
     IN \E o \in (IF op \in {"pushr", "movr", "lea"} THEN {"ok"} ELSE LoadOutcomes(variant, a)) :
          IF o = "fault"
          THEN /\ at' = "fault"
               /\ UNCHANGED <<ip, regs, cmem, entered>>
          ELSE CASE op = "lea" ->
                      /\ regs' = [regs EXCEPT ![r] = a]
                      /\ ip' = ip + 1
                      /\ UNCHANGED <<at, cmem, entered>>
                 [] op = "load" ->
                      /\ regs' = [regs EXCEPT ![r] = Loaded(a, o)]
                      /\ ip' = ip + 1
                      /\ UNCHANGED <<at, cmem, entered>>
                 [] op = "store" ->
                      /\ cmem' = Stored(cmem, a, regs[r])
                      /\ ip' = ip + 1
                      /\ UNCHANGED <<at, regs, entered>>
                 [] op = "xchg" ->
                      /\ regs' = [regs EXCEPT ![r] = Loaded(a, o)]
                      /\ cmem' = Stored(cmem, a, regs[r])
                      /\ ip' = ip + 1
                      /\ UNCHANGED <<at, entered>>
                 [] op = "movr" ->
                      /\ regs' = [regs EXCEPT ![r] = regs[ins[4]]]
                      /\ ip' = ip + 1
                      /\ UNCHANGED <<at, cmem, entered>>
                 [] op = "pushr" ->
                      /\ regs' = [regs EXCEPT !["rsp"] = sp - PtrSize]
                      /\ cmem' = Stored(cmem, sp - PtrSize, regs[r])
                      /\ ip' = ip + 1
                      /\ UNCHANGED <<at, entered>>
                 [] op = "push" ->
                      /\ regs' = [regs EXCEPT !["rsp"] = sp - PtrSize]
                      /\ cmem' = Stored(cmem, sp - PtrSize, Loaded(a, o))
                      /\ ip' = ip + 1
                      /\ UNCHANGED <<at, entered>>
                 [] op = "pop" ->
                      /\ regs' = [regs EXCEPT !["rsp"] = sp + PtrSize]
                      /\ cmem' = Stored(cmem, a, Loaded(sp, "ok"))
                      /\ ip' = ip + 1
                      /\ UNCHANGED <<at, entered>>
                 [] op \in {"movaps_ld", "movaps_st"} ->
                      /\ ip' = ip + 1
                      /\ UNCHANGED <<at, regs, cmem, entered>>
                 [] op = "jmp" ->
                      /\ Goto(Loaded(a, o))
                      /\ UNCHANGED <<regs, cmem>>
                 [] op = "call" ->
                      /\ regs' = [regs EXCEPT !["rsp"] = sp - PtrSize]
                      /\ cmem' = Stored(cmem, sp - PtrSize, TrampBody + OffsetOf(code, ip + 1))
                      /\ Goto(Loaded(a, o))
  /\ UNCHANGED <<variant, xCpu>>

\* fnNew or fnHooked runs and returns: it leaves what it likes in the
\* volatile registers and pops its return address
fn_return ==
  /\ at \in {"fnNew", "fnHooked"}
  /\ \E c \in ClobberVals, x \in RaxVals :
       /\ regs' = [r \in Regs |->
                     IF r = "rax" THEN x
                     ELSE IF r \in Volatile THEN c
                     ELSE IF r = "rsp" THEN regs["rsp"] + PtrSize
                     ELSE regs[r]]
       /\ Goto(Loaded(regs["rsp"], "ok"))
  /\ UNCHANGED <<variant, cmem, xCpu>>

CpuNext == tramp_step \/ fn_return

\* ------------------------------------------------------ callers
\* A thread of the host program calls the virtual function of slot s. If the
\* slot holds a trampoline, the thread runs asmRaw of that hook (EntryHook):
\* it saves the arguments, calls fnNew, comes back into asmRaw at new_return
\* and leaves with jmp [fnHooked]. Nothing in hook() or the destructor knows
\* of such threads.
\* executing or reading a page VirtualFree has released: an access violation,
\* or the bytes are still there
PageOutcomes(h) == IF page[h] = "freed" THEN {"fault", "stale"} ELSE {"ok"}

\* call through the slot
call_slot(s) ==
  /\ callAt = "out"
  /\ IsPage(Header(mem[SlotAddr(s)]))
  /\ callAt' = "body"
  /\ callIn' = RecAt(Header(mem[SlotAddr(s)]))
  /\ UNCHANGED xCall

\* asmRaw up to call [fnNew]
call_fnNew ==
  /\ callAt = "body"
  /\ \E o \in PageOutcomes(callIn) :
       /\ callAt' = IF o = "fault" THEN "fault" ELSE "fnNew"
  /\ UNCHANGED <<callIn, xCall>>

\* fnNew returns to new_return inside asmRaw
call_ret ==
  /\ callAt = "fnNew"
  /\ callAt' = "resume"
  /\ UNCHANGED <<callIn, xCall>>

\* asmRaw from new_return to jmp [fnHooked]: into the next trampoline of the
\* chain, or into the original function and back to the caller
call_jmp ==
  /\ callAt = "resume"
  /\ \E o \in PageOutcomes(callIn) :
       IF o = "fault"
       THEN /\ callAt' = "fault"
            /\ UNCHANGED callIn
       ELSE LET fn == mem[PageOf(callIn) + OffFnHooked]
            IN IF IsPage(Header(fn))
               THEN /\ callAt' = "body"
                    /\ callIn' = RecAt(Header(fn))
               ELSE /\ callAt' = "out"
                    /\ callIn' = 0
  /\ UNCHANGED xCall

CallNext ==
  \/ Next
  \/ \E s \in Slots : call_slot(s)
  \/ call_fnNew
  \/ call_ret
  \/ call_jmp

\* ------------------------------------------------------ PE.h: PEParser
\* The 32-bit fields of a section header are read through int*: a value is
\* the int the code sees (0x80001000 is -2147479552).
MaxInt == 2147483647
MinInt == 0 - MaxInt - 1

\* int arithmetic on 32 bits: the low 32 bits of the sum, as an int
AddWrap(a, b) ==
  IF a >= 0 /\ b >= 0 /\ a > MaxInt - b THEN (a - MaxInt - 1) + (b - MaxInt - 1)
  ELSE IF a < 0 /\ b < 0 /\ a < MinInt - b THEN (a + MaxInt + 1) + (b + MaxInt + 1)
  ELSE a + b

\* the width of the name field of a section header
NameField == 8

\* the bytes of a non-negative 32-bit field, least significant first
Bytes(x) == <<x % 256, (x \div 256) % 256, (x \div 65536) % 256, x \div 16777216>>
RECURSIVE UpToNul(_)
UpToNul(b) == IF b = <<>> \/ b[1] = 0 THEN <<>> ELSE <<b[1]>> \o UpToNul(Tail(b))

\* std::string(const char*) at the name field: the characters up to the first
\* zero byte; a name that fills the field has none, and the string runs on
\* into the bytes of the virtual size that follow it
CString(h) ==
  IF Len(h.name) < NameField THEN <<h.name, <<>>>>
  ELSE <<h.name, UpToNul(Bytes(h.virtual_size))>>

\* the Section that parse() builds from a header (lines 237-242): end is
\* int + size_t, converted back to the int of ibo32
Section(h) ==
  [name |-> CString(h),
   size |-> h.virtual_size,
   start |-> h.virtual_addr,
   end |-> AddWrap(h.virtual_addr, h.virtual_size)]

\* SectionMap::addSection: one vector per name, in the order of the calls
addSection(map, section) ==
  IF section.name \in DOMAIN map
  THEN [map EXCEPT ![section.name] = Append(@, section)]
  ELSE map @@ (section.name :> <<section>>)

\* PEParser::isIbo32InSection(ibo32, PESections*): ibo32 compares as int
isIbo32InSection(v, sections) ==
  \E k \in 1..Len(sections) : v >= sections[k].start /\ v < sections[k].end

\* the images and queries tried
MaxSections == 2
PeNames == {".text", ".textbss"}
AddrVals == {PageSize, MaxInt - PageSize + 1, MinInt + PageSize}
SizeVals == {PageSize, 2 * PageSize, PageSize + 1}
QueryVals == {PageSize, PageSize + 1, MaxInt - PageSize + 2, MaxInt, MinInt, MinInt + PageSize + 1}
HeaderVals == [name : PeNames, virtual_size : SizeVals, virtual_addr : AddrVals]

\* unsigned order of two 32-bit values
ULess(a, b) == IF (a < 0) = (b < 0) THEN a < b ELSE b < 0
\* v lies in [start, start + size), the three taken as unsigned 32-bit numbers
InRange(v, start, size) == ~ULess(v, start) /\ ULess(AddWrap(v, 0 - start), size)
Disjoint(g, h) ==
  /\ ~InRange(g.virtual_addr, h.virtual_addr, h.virtual_size)
  /\ ~InRange(h.virtual_addr, g.virtual_addr, g.virtual_size)

Images ==
  {q \in UNION {[1..k -> HeaderVals] : k \in 1..MaxSections} :
     \A i, j \in DOMAIN q : i # j => Disjoint(q[i], q[j])}

EmptyMap == [n \in {} |-> <<>>]
PeOff == pe = [pc |-> "off", magic |-> TRUE, headers |-> <<>>, i |-> 0,
               sectionMap |-> EmptyMap, v |-> 0, name |-> <<"", <<>>>>, found |-> FALSE]
PeStart ==
  \E m \in BOOLEAN, q \in Images :
    pe = [pc |-> "start", magic |-> m, headers |-> q, i |-> 0,
          sectionMap |-> EmptyMap, v |-> 0, name |-> <<"", <<>>>>, found |-> FALSE]

\* parse(): the magic numbers (lines 225-229) and the section count
parse_begin ==
  /\ pe.pc = "start"
  /\ pe' = IF pe.magic THEN [pe EXCEPT !.pc = "loop", !.sectionMap = EmptyMap, !.i = 0]
           ELSE [pe EXCEPT !.pc = "rejected"]
  /\ UNCHANGED <<ibo, xPe>>

\* one round of the loop over the section headers
parse_section ==
  /\ pe.pc = "loop"
  /\ pe.i < Len(pe.headers)
  /\ pe' = [pe EXCEPT !.sectionMap = addSection(@, Section(pe.headers[pe.i + 1])),
                      !.i = @ + 1]
  /\ UNCHANGED <<ibo, xPe>>

parse_return ==
  /\ pe.pc = "loop"
  /\ pe.i >= Len(pe.headers)
  /\ pe' = [pe EXCEPT !.pc = "parsed"]
  /\ UNCHANGED <<ibo, xPe>>

\* isIbo32InSection(ibo, name) for a name that getSectionsWithName finds
query(v, name) ==
  /\ pe.pc = "parsed"
  /\ name \in DOMAIN pe.sectionMap
  /\ pe' = [pe EXCEPT !.pc = "queried", !.v = v, !.name = name,
                      !.found = isIbo32InSection(v, pe.sectionMap[name])]
  /\ UNCHANGED <<ibo, xPe>>

PeNext ==
  \/ parse_begin
  \/ parse_section
  \/ parse_return
  \/ \E v \in QueryVals, h \in HeaderVals : query(v, CString(h))

\* ------------------------------------------------------ PE.h: ibo32
\* A pointer is 64 bits and the int of an ibo32 is 32: numbers are kept as
\* 16-bit limbs, least significant first (four for a pointer, two for an int).
W16 == 2 ^ 16

RECURSIVE AddLimbs(_, _, _)
AddLimbs(a, b, carry) ==
  IF a = <<>> THEN <<>>
  ELSE <<(a[1] + b[1] + carry) % W16>>
         \o AddLimbs(Tail(a), Tail(b), (a[1] + b[1] + carry) \div W16)
Complement(a) == [k \in DOMAIN a |-> W16 - 1 - a[k]]
\* uintptr_t difference, modulo 2^64
SubPtr(a, b) == AddLimbs(a, Complement(b), 1)
\* static_cast<int>: the low 32 bits
ToInt(d) == SubSeq(d, 1, 2)
\* an int converted to a 64-bit offset
SignExtend(val) == val \o (IF val[2] >= W16 \div 2 THEN <<W16 - 1, W16 - 1>> ELSE <<0, 0>>)
ZeroExtend(val) == val \o <<0, 0>>

\* ibo32(T1* address, T2* base)
ibo32(address, base) == ToInt(SubPtr(address, base))
\* as(T2* base) with the offset taken as unsigned
as_unsigned(val, base) == AddLimbs(base, ZeroExtend(val), 0)
\* as(T2* base): base + val with val an int
as(val, base) == AddLimbs(base, SignExtend(val), 0)

\* the addresses tried
LowWords == {<<0, 0>>, <<W16 - 1, W16 \div 2 - 1>>, <<0, W16 \div 2>>, <<W16 - 1, W16 - 1>>}
HighWords == {<<0, 0>>, <<1, 0>>, <<W16 - 1, W16 - 1>>}
Ptrs == {lo \o hi : lo \in LowWords, hi \in HighWords}
NullPtr == <<0, 0, 0, 0>>

IboOff == ibo = [pc |-> "off", A |-> NullPtr, B |-> NullPtr, B2 |-> NullPtr, val |-> <<0, 0>>,
                 back |-> NullPtr, moved |-> NullPtr, val2 |-> <<0, 0>>]
IboStart ==
  \E a, b, b2 \in Ptrs :
    ibo = [pc |-> "args", A |-> a, B |-> b, B2 |-> b2, val |-> <<0, 0>>,
           back |-> NullPtr, moved |-> NullPtr, val2 |-> <<0, 0>>]

\* ibo32 ibo(A, B)
ibo_make ==
  /\ ibo.pc = "args"
  /\ ibo' = [ibo EXCEPT !.pc = "made", !.val = ibo32(ibo.A, ibo.B)]
  /\ UNCHANGED <<pe, xPe>>

\* ibo.as(B)
ibo_as ==
  /\ ibo.pc = "made"
  /\ ibo' = [ibo EXCEPT !.pc = "back", !.back = as(ibo.val, ibo.B)]
  /\ UNCHANGED <<pe, xPe>>

\* ibo.as(B')
ibo_rebase ==
  /\ ibo.pc = "back"
  /\ ibo' = [ibo EXCEPT !.pc = "moved", !.moved = as(ibo.val, ibo.B2)]
  /\ UNCHANGED <<pe, xPe>>

\* ibo32(ibo.as(B'), B')
ibo_again ==
  /\ ibo.pc = "moved"
  /\ ibo' = [ibo EXCEPT !.pc = "done", !.val2 = ibo32(ibo.moved, ibo.B2)]
  /\ UNCHANGED <<pe, xPe>>

IboNext == ibo_make \/ ibo_as \/ ibo_rebase \/ ibo_again

\* ------------------------------------------------------ PE.h: the parser's statics
\* An image as parse() sees it: whether it starts with "MZ", whether the
\* bytes at e_lfanew (when inside the module) are "PE\0\0", e_lfanew, the
\* size of the optional header, the section count, and the size of the
\* module from MODULEINFO, which parse() never looks at.
ImageVals ==
  [mz : BOOLEAN, sig : BOOLEAN, lfanew : {128, 8192}, opt : {240, 8192},
   count : {2, 3, 120}, size : {PageSize}]
\* the module of the current process
OwnImage == [mz |-> TRUE, sig |-> TRUE, lfanew |-> 128, opt |-> 240, count |-> 3, size |-> PageSize]

\* offset of the section table: base += e_lfanew, then += optional header size + 0x18
TableOff(img) == img.lfanew + img.opt + 24
\* offset of section header i (0-based): base += 0x28 per round
HeaderOff(img, i) == TableOff(img) + 40 * i

\* the names of the section headers; a header that lies beyond the module,
\* or after the third, has some other name
NameOrder == <<".text", ".rdata", ".data">>
NameAt(img, i) ==
  IF i < Len(NameOrder) /\ HeaderOff(img, i) + 40 <= img.size THEN NameOrder[i + 1] ELSE "?"
SectionNames(img) == {NameAt(img, i) : i \in 0..(img.count - 1)}

\* what parse() does with the image of pInfo after setProcessInfo: its return
\* value (or an access violation), whether it made a SectionMap, with which
\* names, and whether it read at or beyond base + size. Bytes beyond the
\* module are another mapping or none: a read there faults or yields anything.
ParseOutcomes_nosig(img) ==
  {[ret |-> IF img.mz THEN "true" ELSE "false", made |-> img.mz,
    names |-> IF img.mz THEN SectionNames(img) ELSE {}, beyond |-> FALSE]}
ParseOutcomes(img) ==
  LET sigBeyond == img.lfanew + 4 > img.size
      coffBeyond == img.lfanew + 22 > img.size
      hdrBeyond == \E i \in 0..(img.count - 1) : HeaderOff(img, i) + 16 > img.size
      beyondAny == sigBeyond \/ coffBeyond \/ hdrBeyond
      done == [ret |-> "true", made |-> TRUE, names |-> SectionNames(img), beyond |-> beyondAny]
      crash == [ret |-> "fault", made |-> FALSE, names |-> {}, beyond |-> TRUE]
      reject(b) == [ret |-> "false", made |-> FALSE, names |-> {}, beyond |-> b]
  IN IF ~img.mz THEN {reject(FALSE)}
     ELSE IF sigBeyond THEN {crash, reject(TRUE), done}
     ELSE IF ~img.sig THEN {reject(FALSE)}
     ELSE IF beyondAny THEN {crash, done}
     ELSE {done}

\* the statics after setProcessInfo(arg): arg is <<>> (nullptr) or <<image>>;
\* ok tells whether GetModuleInformation succeeds
SetProcessInfo_keep(arg, ok) ==
  [sectionMap |-> sectionMap,
   pInfo |-> IF arg = <<>> THEN (IF ok THEN <<OwnImage>> ELSE <<>>) ELSE arg]
SetProcessInfo(arg, ok) ==
  [sectionMap |-> <<>>,
   pInfo |-> IF arg = <<>> THEN (IF ok THEN <<OwnImage>> ELSE <<>>) ELSE arg]

\* PEParser::getSectionsWithName: "none" is nullptr
LookupNames == {".text", ".rdata", ".data", ".bss"}
getSectionsWithName(name) ==
  IF sectionMap = <<>> THEN "none"
  ELSE IF name \in sectionMap[1] THEN name ELSE "none"

NoLookup == [name |-> "", ret |-> "none"]
NoQuery == [op |-> "", name |-> "", ret |-> ""]
ParserArgs == {<<>>} \cup {<<img>> : img \in ImageVals}
ParserOff ==
  /\ pInfo = <<>>
  /\ sectionMap = <<>>
  /\ lastCall = [op |-> "none", ret |-> "", beyond |-> FALSE]
  /\ looked = NoLookup
  /\ parsedOnce = FALSE
  /\ asked = NoQuery

\* setProcessInfo(pInfo), also the body of the PEParser constructor
setProcessInfo(arg, ok) ==
  /\ lastCall.ret # "fault"
  /\ asked.ret # "fault"
  /\ pInfo' = SetProcessInfo(arg, ok).pInfo
  /\ sectionMap' = SetProcessInfo(arg, ok).sectionMap
  /\ lastCall' = [op |-> "setProcessInfo", ret |-> "", beyond |-> FALSE]
  /\ looked' = NoLookup
  /\ asked' = NoQuery
  /\ UNCHANGED <<parsedOnce, xParser>>

\* parse(pInfo): setProcessInfo, then the headers of the stored image; with
\* the stored ProcessInfo empty, PEParser::pInfo->mInfo is a null dereference
parse(arg, ok) ==
  /\ lastCall.ret # "fault"
  /\ asked.ret # "fault"
  /\ pInfo' = SetProcessInfo(arg, ok).pInfo
  /\ IF SetProcessInfo(arg, ok).pInfo = <<>>
     THEN /\ sectionMap' = SetProcessInfo(arg, ok).sectionMap
          /\ lastCall' = [op |-> "parse", ret |-> "fault", beyond |-> FALSE]
          /\ UNCHANGED parsedOnce
     ELSE \E o \in ParseOutcomes(SetProcessInfo(arg, ok).pInfo[1]) :
            /\ sectionMap' = IF o.made THEN <<o.names>> ELSE SetProcessInfo(arg, ok).sectionMap
            /\ lastCall' = [op |-> "parse", ret |-> o.ret, beyond |-> o.beyond]
            /\ parsedOnce' = (parsedOnce \/ o.ret = "true")
  /\ looked' = NoLookup
  /\ asked' = NoQuery
  /\ UNCHANGED xParser

\* ~PEParser()
destroy ==
  /\ lastCall.ret # "fault"
  /\ asked.ret # "fault"
  /\ pInfo' = <<>>
  /\ sectionMap' = <<>>
  /\ lastCall' = [op |-> "destroy", ret |-> "", beyond |-> FALSE]
  /\ looked' = NoLookup
  /\ asked' = NoQuery
  /\ UNCHANGED <<parsedOnce, xParser>>

\* getSectionsWithName(name)
lookup(name) ==
  /\ lastCall.ret # "fault"
  /\ asked.ret # "fault"
  /\ looked' = [name |-> name, ret |-> getSectionsWithName(name)]
  /\ UNCHANGED <<pInfo, sectionMap, lastCall, parsedOnce, asked, xParser>>

\* lines 270-279, 298-307: `for (section : *sections)`. With sections a null
\* pointer the vector is read at address 0: undefined, an access violation
\* where that page is not mapped
NullVector == {"fault", "false", "true"}
ByNameQueries == {"isAddressInSection", "isIbo32InSection"}

\* lines 287-290, 315-318: the static query on getSectionsWithName(name); hit
\* tells whether the address (the ibo) lies in [start, end) of a section found
ContainmentByName(name, hit) ==
  IF getSectionsWithName(name) = "none" THEN NullVector
  ELSE {IF hit THEN "true" ELSE "false"}

\* isAddressInSection(address, name), isIbo32InSection(ibo, name)
query_by_name(op, name, hit) ==
  /\ lastCall.ret # "fault"
  /\ asked.ret # "fault"
  /\ \E r \in ContainmentByName(name, hit) : asked' = [op |-> op, name |-> name, ret |-> r]
  /\ UNCHANGED <<pInfo, sectionMap, lastCall, looked, parsedOnce, xParser>>

ParserNext ==
  \/ \E arg \in ParserArgs, ok \in BOOLEAN : setProcessInfo(arg, ok)
  \/ \E arg \in ParserArgs, ok \in BOOLEAN : parse(arg, ok)
  \/ destroy
  \/ \E name \in LookupNames : lookup(name)

QueryNext ==
  \/ ParserNext
  \/ \E op \in ByNameQueries, name \in LookupNames, hit \in BOOLEAN : query_by_name(op, name, hit)

\* ------------------------------------------------------ RTTIScanner: the .rdata sweep
\* Addresses are offsets from the image base. The image has one .text and
\* one .data section and two .rdata sections: the first holds the pointer
\* slots under test, the second the RTTI structures, whose own bytes are no
\* pointers.
RLen == 3
MaxScans == 2

TextRva == PageSize
RdataRva == 2 * PageSize
StructRva == 3 * PageSize
DataRva == 4 * PageSize

\* the RTTI chains the image contains: the COL's signature, its two IBOs,
\* the base class array IBO of the CHD it names, and the mangled name of
\* its TypeDescriptor
ColTable ==
  << [signature |-> 1, iboTypeDescriptor |-> DataRva + 32, iboClassDescriptor |-> StructRva,
      iboBaseClassDescriptor |-> StructRva, name |-> ".?AVA@@"],
     [signature |-> 1, iboTypeDescriptor |-> DataRva + 64, iboClassDescriptor |-> StructRva,
      iboBaseClassDescriptor |-> StructRva, name |-> ".?AVB@@"],
     [signature |-> 1, iboTypeDescriptor |-> DataRva + 32, iboClassDescriptor |-> StructRva,
      iboBaseClassDescriptor |-> StructRva, name |-> ".?AVA@@"],
     [signature |-> 0, iboTypeDescriptor |-> DataRva + 96, iboClassDescriptor |-> StructRva,
      iboBaseClassDescriptor |-> StructRva, name |-> ".?AVC@@"],
     [signature |-> 1, iboTypeDescriptor |-> TextRva, iboClassDescriptor |-> StructRva,
      iboBaseClassDescriptor |-> StructRva, name |-> ".?AVC@@"],
     [signature |-> 1, iboTypeDescriptor |-> DataRva + 96, iboClassDescriptor |-> DataRva,
      iboBaseClassDescriptor |-> StructRva, name |-> ".?AVC@@"],
     [signature |-> 1, iboTypeDescriptor |-> DataRva + 96, iboClassDescriptor |-> StructRva,
      iboBaseClassDescriptor |-> TextRva, name |-> ".?AVC@@"],
     [signature |-> 1, iboTypeDescriptor |-> DataRva + 128, iboClassDescriptor |-> StructRva,
      iboBaseClassDescriptor |-> StructRva, name |-> ""] >>
Cols == 1..Len(ColTable)

\* slot values: no pointer, a pointer into .text, a pointer to COL c
Junk == 0
Fn == TextRva + 16
ColPtr(c) == StructRva + PtrSize * (c - 1)
ColOf(a) == (a - StructRva) \div PtrSize + 1
SlotVals == {Junk, Fn} \cup {ColPtr(c) : c \in Cols}
StructSlots == [k \in Cols |-> Junk]

\* RTTI::demangleName: the leading dot is dropped and UnDecorateSymbolName
\* is asked for the name only; it fails on the empty string
demangleName(name) ==
  CASE name = ".?AVA@@" -> "A"
    [] name = ".?AVB@@" -> "B"
    [] name = ".?AVC@@" -> "C"
    [] OTHER -> ""

\* the vectors of setSectionData, as parse() builds them
RdataOf(img) ==
  << [start |-> RdataRva, end |-> RdataRva + PtrSize * Len(img.slots)],
     [start |-> StructRva, end |-> StructRva + PtrSize * Len(StructSlots)] >>
TextOf(img) == << [start |-> TextRva, end |-> TextRva + PageSize] >>
DataOf(img) == << [start |-> DataRva, end |-> DataRva + PageSize] >>

\* PEParser::isAddressInSection(address, sections)
isAddressInSection(a, ss) == \E k \in 1..Len(ss) : a >= ss[k].start /\ a < ss[k].end

\* the checks of one candidate after its two slots have been accepted
\* (lines 241-250), without the signature
Validated_nosig(img, c) ==
  /\ isIbo32InSection(ColTable[c].iboTypeDescriptor, DataOf(img))
  /\ isIbo32InSection(ColTable[c].iboClassDescriptor, RdataOf(img))
  /\ isIbo32InSection(ColTable[c].iboBaseClassDescriptor, RdataOf(img))
  /\ demangleName(ColTable[c].name) # ""
\* the checks of one candidate after its two slots have been accepted
Validated(img, c) ==
  /\ ColTable[c].signature = 1
  /\ isIbo32InSection(ColTable[c].iboTypeDescriptor, DataOf(img))
  /\ isIbo32InSection(ColTable[c].iboClassDescriptor, RdataOf(img))
  /\ isIbo32InSection(ColTable[c].iboBaseClassDescriptor, RdataOf(img))
  /\ demangleName(ColTable[c].name) # ""

\* unordered_map::insert_or_assign
Emplace_assign(map, name, rec) ==
  IF name \in DOMAIN map THEN [map EXCEPT ![name] = rec] ELSE map @@ (name :> rec)
\* unordered_map::emplace: nothing happens when the key is there
Emplace(map, name, rec) ==
  IF name \in DOMAIN map THEN map ELSE map @@ (name :> rec)

\* the slots of .rdata section k and the address of its slot i (0-based)
SlotsOf(img, k) == IF k = 1 THEN img.slots ELSE StructSlots
SlotRva(img, k, i) == RdataOf(img)[k].start + PtrSize * i
\* what a read of slot i of section k yields; behind the first section lies
\* img.after or nothing (access violation), behind the second zero padding
Unmapped == 0 - 1
ReadSlot(img, k, i) ==
  IF i < Len(SlotsOf(img, k)) THEN SlotsOf(img, k)[i + 1]
  ELSE IF k = 1
       THEN (IF i - Len(img.slots) < Len(img.after)
             THEN img.after[i - Len(img.slots) + 1] ELSE Unmapped)
       ELSE Junk

\* the images scanned: headers, slots, and the memory behind the slots
ScanHeaders ==
  {OwnImage, [OwnImage EXCEPT !.count = 2], [OwnImage EXCEPT !.mz = FALSE],
   [OwnImage EXCEPT !.sig = FALSE]}
SlotArrays == UNION {[1..n -> SlotVals] : n \in 1..RLen}
Afters == {<<>>, <<Junk, Junk>>, <<ColPtr(1), Fn>>}
RescanArrays ==
  {<<Junk>>, <<Junk, ColPtr(3), Fn>>, <<Junk, ColPtr(1), Fn>>, <<Junk, ColPtr(4), Fn>>}
ScanImages(n) ==
  IF n = 0 THEN [hdr : ScanHeaders, slots : SlotArrays, after : Afters]
  ELSE [hdr : ScanHeaders, slots : RescanArrays, after : {<<Junk, Junk>>}]

NoImage == [hdr |-> OwnImage, slots |-> <<>>, after |-> <<>>]
ScanOff ==
  /\ phase = "idle"
  /\ scans = 0
  /\ image = NoImage
  /\ sec = 0
  /\ pCOL = 0
  /\ classMap = EmptyMap
  /\ scanRet = FALSE
  /\ examined = <<>>
  /\ derefd = {}
  /\ mapAtEntry = EmptyMap
  /\ dups = 0

\* the tests before the loops, with .data forgotten
Initialized_nodata(o) == o.ret = "true" /\ {".text", ".rdata"} \subseteq o.names
\* the tests before the loops: parse succeeded, setSectionData found the
\* three names, and none of the three vectors is null
Initialized(o) == o.ret = "true" /\ {".text", ".data", ".rdata"} \subseteq o.names

\* scan(pInfo) up to the loops: parse, setSectionData and the null tests
scan_begin(img) ==
  /\ scans' = scans + 1
  /\ image' = img
  /\ mapAtEntry' = classMap
  /\ examined' = <<>>
  /\ derefd' = {}
  /\ \E o \in ParseOutcomes(img.hdr) :
       /\ pInfo' = <<img.hdr>>
       /\ sectionMap' = IF o.made THEN <<o.names>> ELSE <<>>
       /\ lastCall' = [op |-> "parse", ret |-> o.ret, beyond |-> o.beyond]
       /\ parsedOnce' = (parsedOnce \/ o.ret = "true")
       /\ looked' = NoLookup
       /\ IF Initialized(o)
          THEN /\ phase' = "sweep"
               /\ sec' = 1
               /\ pCOL' = 0
               /\ UNCHANGED scanRet
          ELSE /\ phase' = "returned"
               /\ scanRet' = FALSE
               /\ UNCHANGED <<sec, pCOL>>
  /\ UNCHANGED <<classMap, dups, xScan>>

\* one round of while (pCOL++ < end), or the end of a section
sweep_step ==
  /\ phase = "sweep"
  /\ LET n == Len(SlotsOf(image, sec))
         q == pCOL + 1
         COL == ReadSlot(image, sec, q)
         nxt == ReadSlot(image, sec, q + 1)
         c == ColOf(COL)
         name == demangleName(ColTable[c].name)
     IN IF ~(pCOL < n)
        THEN /\ IF sec < Len(RdataOf(image))
                THEN /\ sec' = sec + 1
                     /\ pCOL' = 0
                     /\ UNCHANGED <<phase, scanRet>>
                ELSE /\ phase' = "returned"
                     /\ scanRet' = TRUE
                     /\ UNCHANGED <<sec, pCOL>>
             /\ UNCHANGED <<classMap, examined, derefd, dups>>
        ELSE /\ examined' = Append(examined, <<sec, q>>)
             /\ UNCHANGED <<sec, scanRet>>
             /\ IF COL = Unmapped
                THEN /\ phase' = "fault"
                     /\ derefd' = derefd \cup {<<sec, q>>}
                     /\ UNCHANGED <<pCOL, classMap, dups>>
                ELSE IF ~isAddressInSection(COL, RdataOf(image))
                THEN /\ pCOL' = q
                     /\ derefd' = derefd \cup {<<sec, q>>}
                     /\ UNCHANGED <<phase, classMap, dups>>
                ELSE /\ derefd' = derefd \cup {<<sec, q>>, <<sec, q + 1>>}
                     /\ IF nxt = Unmapped
                        THEN /\ phase' = "fault"
                             /\ UNCHANGED <<pCOL, classMap, dups>>
                        ELSE /\ pCOL' = q + 1
                             /\ UNCHANGED phase
                             /\ IF isAddressInSection(nxt, TextOf(image)) /\ Validated(image, c)
                                THEN /\ classMap' = Emplace(classMap, name,
                                                      [vft |-> SlotRva(image, sec, q + 1), col |-> c])
                                     /\ dups' = IF name \in DOMAIN classMap THEN dups + 1 ELSE dups
                                ELSE UNCHANGED <<classMap, dups>>
  /\ UNCHANGED <<scans, image, mapAtEntry, parserVars, xScan>>

\* a caller calls scan when no scan is running
scan ==
  /\ phase \in {"idle", "returned"}
  /\ scans < MaxScans
  /\ \E img \in ScanImages(scans) : scan_begin(img)

ScanNext ==
  \/ scan
  \/ sweep_step

\* ------------------------------------------- RTTIScanner.h: the .text pattern scan
\* The section is TextLen bytes long and is followed by zero bytes; the
\* image is the one of the sweep, with four slots in its first .rdata
\* section: two virtual function tables, each below the pointer to its COL.
TextLen == 30
Window == 16

\* REX.W lea reg1,[rip] ; REX.W mov [reg2],reg1 and its don't-care bits
signature == <<72, 141, 5, 0, 0, 0, 0, 72, 137, 0, 0, 0, 0, 0, 0, 0>>
bitmask == <<4, 0, 56, 255, 255, 255, 255, 5, 0, 63, 255, 255, 255, 255, 255, 255>>

RECURSIVE BitAnd(_, _)
BitAnd(a, b) ==
  IF a = 0 \/ b = 0 THEN 0 ELSE (a % 2) * (b % 2) + 2 * BitAnd(a \div 2, b \div 2)
RECURSIVE BitXor(_, _)
BitXor(a, b) ==
  IF a = 0 /\ b = 0 THEN 0 ELSE (((a % 2) + (b % 2)) % 2) + 2 * BitXor(a \div 2, b \div 2)

ByteAt(txt, i) == IF i < Len(txt) THEN txt[i + 1] ELSE 0

\* maskFillNot, sigFill, cmpeq, movemask and tzcnt: the first lane of the
\* window at c whose byte is the first byte of the template, or 16
FirstLanes(txt, c) ==
  {j \in 0..(Window - 1) : BitAnd(ByteAt(txt, c + j), 255 - bitmask[1]) = signature[1]}
Match(txt, c) ==
  IF FirstLanes(txt, c) = {} THEN Window
  ELSE CHOOSE j \in FirstLanes(txt, c) : \A l \in FirstLanes(txt, c) : j <= l

\* maskShiftNot, sigShift, xor and testz on the window at c: lanes 0..14
\* against the template's lanes 1..15, lane 15 masked out
ShiftedEq(txt, c) ==
  \A j \in 0..(Window - 2) :
    BitXor(BitAnd(ByteAt(txt, c + j), 255 - bitmask[j + 2]), signature[j + 2]) = 0

\* InstructionEncoding at offset P
leaRexPrefix(txt, P) == ByteAt(txt, P)
leaOperands(txt, P) == ByteAt(txt, P + 2)
RIPOffset(txt, P) ==
  LET u == ByteAt(txt, P + 3) + 256 * ByteAt(txt, P + 4) + 65536 * ByteAt(txt, P + 5)
      hi == ByteAt(txt, P + 6)
  IN IF hi < 128 THEN u + 16777216 * hi ELSE u + 16777216 * (hi - 256)
movRexPrefix(txt, P) == ByteAt(txt, P + 7)
movOperands(txt, P) == ByteAt(txt, P + 9)
movExtraOp(txt, P) == ByteAt(txt, P + 10)

\* the three tests of lines 168-170, none of which sends the loop on
Consistent(txt, P) ==
  /\ ~(/\ BitAnd(movOperands(txt, P), 7) = 5
       /\ (BitAnd(movOperands(txt, P), 64) = 0 \/ movExtraOp(txt, P) # 0))
  /\ BitAnd(leaRexPrefix(txt, P), 4) = BitAnd(movRexPrefix(txt, P), 4)
  /\ BitAnd(BitXor(leaOperands(txt, P), movOperands(txt, P)), 56) = 0

\* the texts scanned: nops (144), one lea/mov pair at offset P whose displacement
\* reaches the table at slot k, and possibly one stray REX.W byte before it
Disp(P, k) == RdataRva + PtrSize * k - (TextRva + P + 7)
Pair(P, k, lr, lo, mr, mo) ==
  <<lr, 141, lo, Disp(P, k) % 256, (Disp(P, k) \div 256) % 256, 0, 0, mr, 137, mo>>
PairLen == Len(Pair(0, 1, 72, 5, 72, 1))
TextWith(P, j, pair) ==
  [i \in 1..TextLen |->
     IF i - 1 >= P /\ i - 1 < P + PairLen THEN pair[i - P]
     ELSE IF i - 1 = j THEN signature[1] ELSE 144]
StrayAt == {0 - 1, 0, Window \div 2, Window - 1}
TextVals ==
  {TextWith(P, j, Pair(P, k, lr, lo, mr, mo)) :
     P \in 0..(TextLen - PairLen), j \in StrayAt, k \in {1, 3},
     lr \in {72, 76}, lo \in {5, 13}, mr \in {72, 76}, mo \in {1, 9, 5, 4}}
TextImage(h) ==
  [hdr |-> h, slots |-> <<ColPtr(1), Fn, ColPtr(4), Fn>>, after |-> <<Junk, Junk>>]

\* *ppCOL: the slot at address a of the first .rdata section
SlotAt(img, a) ==
  IF (a - RdataRva) % PtrSize = 0
  THEN ReadSlot(img, 1, (a - RdataRva) \div PtrSize) ELSE Junk

TextOff ==
  /\ text = <<>>
  /\ curr = 0
  /\ tphase = "idle"
  /\ tRet = FALSE
  /\ evaluated = {}

\* scan(pInfo) up to the loop: parse, setSectionData, the first load
text_begin(h, txt) ==
  /\ text' = txt
  /\ image' = TextImage(h)
  /\ evaluated' = {}
  /\ \E o \in ParseOutcomes(h) :
       /\ pInfo' = <<h>>
       /\ sectionMap' = IF o.made THEN <<o.names>> ELSE <<>>
       /\ lastCall' = [op |-> "parse", ret |-> o.ret, beyond |-> o.beyond]
       /\ parsedOnce' = (parsedOnce \/ o.ret = "true")
       /\ looked' = NoLookup
       /\ IF Initialized(o)
          THEN /\ tphase' = "scan"
               /\ curr' = 0
               /\ UNCHANGED tRet
          ELSE /\ tphase' = "returned"
               /\ tRet' = FALSE
               /\ UNCHANGED curr
  /\ UNCHANGED <<phase, scans, sec, pCOL, classMap, scanRet, examined, derefd, mapAtEntry, dups, xText>>

\* one round of for (curr = textStart; curr < textEnd;), or its end
text_step ==
  /\ tphase = "scan"
  /\ LET match == Match(text, curr)
         next == curr + match + 1
         P == next - 1
         pVFT == TextRva + next + RIPOffset(text, P) + 6
         ppCOL == pVFT - PtrSize
         COL == SlotAt(image, ppCOL)
         c == ColOf(COL)
         name == demangleName(ColTable[c].name)
     IN IF ~(curr < Len(text))
        THEN /\ tphase' = "returned"
             /\ tRet' = TRUE
             /\ UNCHANGED <<curr, evaluated, classMap, dups>>
        ELSE /\ curr' = next
             /\ UNCHANGED <<tphase, tRet>>
             /\ IF match # Window /\ ShiftedEq(text, next) /\ Consistent(text, P)
                THEN /\ evaluated' = evaluated \cup {P}
                     /\ IF /\ isAddressInSection(ppCOL, RdataOf(image))
                           /\ isAddressInSection(COL, RdataOf(image))
                           /\ Validated(image, c)
                        THEN /\ classMap' = Emplace(classMap, name, [vft |-> pVFT, col |-> c])
                             /\ dups' = IF name \in DOMAIN classMap THEN dups + 1 ELSE dups
                        ELSE UNCHANGED <<classMap, dups>>
                ELSE UNCHANGED <<evaluated, classMap, dups>>
  /\ UNCHANGED <<text, image, phase, scans, sec, pCOL, scanRet, examined, derefd, mapAtEntry,
                 parserVars, xText>>

\* a caller calls the pattern scan when none is running
text_scan ==
  /\ tphase = "idle"
  /\ \E h \in {OwnImage, [OwnImage EXCEPT !.count = 2]}, txt \in TextVals : text_begin(h, txt)

TextNext ==
  \/ text_scan
  \/ text_step

\* ------------------------------------ several invocations of one trampoline
\* NThreads threads call through a slot hooked with one EntryHook or
\* ExitHook; fnNew and fnHooked may call the slot again before they return.
\* Every thread has its registers and its stack; the header of the hook and
\* its HookContext are the same memory for all.
NThreads == 2
MaxReenter == 1
Threads == 1..NThreads
StackOf(t) == UserBase + PageSize * t
RetOf(t) == TextBase + PtrSize * t
\* the instruction after a call of the slot inside fnNew or fnHooked
RetInside(fn) == fn + PtrSize
InvCells ==
  HeaderCells \cup CtxCells
    \cup {StackOf(t) - PtrSize * k : t \in Threads, k \in 1..(4 + 2 * MaxReenter)}

InvMem ==
  [a \in InvCells |->
     CASE a = Header(TrampBody) + OffContext -> CtxAddr
       [] a = Header(TrampBody) + OffPrevious -> SlotAddr(0)
       [] a = Header(TrampBody) + OffFnNew -> FnNewAddr
       [] a = Header(TrampBody) + OffFnHooked -> FnHookedAddr
       [] OTHER -> 0]
Outside == [at |-> "out", ip |-> 0, regs |-> EntryRegs]
NoReturn == [t |-> 0, want |-> 0, got |-> 0]

InvOff ==
  /\ ivariant = ""
  /\ inv = [t \in Threads |-> Outside]
  /\ imem = InvMem
  /\ expect = [t \in Threads |-> <<>>]
  /\ lastReturn = NoReturn
  /\ reentries = 0

InvStart ==
  /\ ivariant \in {"EntryHook", "ExitHook"}
  /\ inv = [t \in Threads |-> Outside]
  /\ imem = InvMem
  /\ expect = [t \in Threads |-> <<>>]
  /\ lastReturn = NoReturn
  /\ reentries = 0

InvLoad(m, a) == IF a \in InvCells THEN m[a] ELSE CodeBytes
InvStore(m, a, val) == IF a \in InvCells THEN [m EXCEPT ![a] = val] ELSE m
InvMapped(v, a) == a \in InvCells \/ InCode(v, a) \/ InCtx(a)

\* where control is after a jump, call or return to address a
InvLanding(v, a) ==
  IF a = FnNewAddr THEN "fnNew"
  ELSE IF a = FnHookedAddr THEN "fnHooked"
  ELSE IF a = RetInside(FnNewAddr) THEN "fnNewBack"
  ELSE IF a = RetInside(FnHookedAddr) THEN "fnHookedBack"
  ELSE IF \E u \in Threads : a = RetOf(u) THEN "caller"
  ELSE Landing(v, a)
\* a transfer to an address that is no function entry and not in asmRaw ends
\* an invocation
Ends(v, a) == InvLanding(v, a) \notin {"fnNew", "fnHooked", "tramp"}

\* thread t continues at address a with registers r and memory m
InvGoto(t, a, r, m) ==
  /\ inv' = [inv EXCEPT ![t] = [at |-> InvLanding(ivariant, a),
                                ip |-> LandingIp(ivariant, a), regs |-> r]]
  /\ imem' = m
  /\ IF Ends(ivariant, a) /\ expect[t] # <<>>
     THEN /\ lastReturn' = [t |-> t, want |-> expect[t][Len(expect[t])], got |-> a]
          /\ expect' = [expect EXCEPT ![t] = SubSeq(@, 1, Len(@) - 1)]
     ELSE UNCHANGED <<lastReturn, expect>>

\* the caller's call instruction: the return address is pushed and control
\* is at the first byte of asmRaw
inv_call(t) ==
  /\ inv[t].at = "out"
  /\ inv' = [inv EXCEPT ![t] = [at |-> "tramp", ip |-> 1,
                                regs |-> [EntryRegs EXCEPT !["rsp"] = StackOf(t) - 3 * PtrSize]]]
  /\ imem' = InvStore(imem, StackOf(t) - 3 * PtrSize, RetOf(t))
  /\ expect' = [expect EXCEPT ![t] = <<RetOf(t)>>]
  /\ UNCHANGED <<ivariant, lastReturn, reentries, xInv>>

\* one instruction of asmRaw, run by thread t
inv_step(t) ==
  /\ inv[t].at = "tramp"
  /\ LET code == asmRaw(ivariant)
         k == inv[t].ip
         ins == code[k]
         op == ins[2]
         r == ins[3]
         rg == inv[t].regs
         a == IF op \in {"pushr", "movr"} THEN 0 ELSE EffAddr(code, k, rg)
         sp == rg["rsp"]
         on(r2, m2) == /\ inv' = [inv EXCEPT ![t] = [at |-> "tramp", ip |-> k + 1, regs |-> r2]]
                       /\ imem' = m2
                       /\ UNCHANGED <<lastReturn, expect>>
     IN IF op \notin {"pushr", "movr", "lea"} /\ ~InvMapped(ivariant, a)
        THEN /\ inv' = [inv EXCEPT ![t].at = "fault"]
             /\ UNCHANGED <<imem, lastReturn, expect>>
        ELSE CASE op = "lea" -> on([rg EXCEPT ![r] = a], imem)
               [] op = "load" -> on([rg EXCEPT ![r] = InvLoad(imem, a)], imem)
               [] op = "store" -> on(rg, InvStore(imem, a, rg[r]))
               [] op = "xchg" -> on([rg EXCEPT ![r] = InvLoad(imem, a)], InvStore(imem, a, rg[r]))
               [] op = "movr" -> on([rg EXCEPT ![r] = rg[ins[4]]], imem)
               [] op = "pushr" ->
                    on([rg EXCEPT !["rsp"] = sp - PtrSize], InvStore(imem, sp - PtrSize, rg[r]))
               [] op = "push" ->
                    on([rg EXCEPT !["rsp"] = sp - PtrSize],
                       InvStore(imem, sp - PtrSize, InvLoad(imem, a)))
               [] op = "pop" ->
                    on([rg EXCEPT !["rsp"] = sp + PtrSize], InvStore(imem, a, InvLoad(imem, sp)))
               [] op \in {"movaps_ld", "movaps_st"} -> on(rg, imem)
               [] op = "jmp" -> InvGoto(t, InvLoad(imem, a), rg, imem)
               [] op = "call" ->
                    InvGoto(t, InvLoad(imem, a), [rg EXCEPT !["rsp"] = sp - PtrSize],
                            InvStore(imem, sp - PtrSize, TrampBody + OffsetOf(code, k + 1)))
  /\ UNCHANGED <<ivariant, reentries, xInv>>

\* fnNew or fnHooked calls the virtual function again
inv_reenter(t) ==
  /\ inv[t].at \in {"fnNew", "fnHooked"}
  /\ reentries < MaxReenter
  /\ reentries' = reentries + 1
  /\ LET sp == inv[t].regs["rsp"]
         back == RetInside(IF inv[t].at = "fnNew" THEN FnNewAddr ELSE FnHookedAddr)
     IN /\ inv' = [inv EXCEPT ![t] = [at |-> "tramp", ip |-> 1,
                                      regs |-> [inv[t].regs EXCEPT !["rsp"] = sp - PtrSize]]]
        /\ imem' = InvStore(imem, sp - PtrSize, back)
        /\ expect' = [expect EXCEPT ![t] = Append(@, back)]
  /\ UNCHANGED <<ivariant, lastReturn, xInv>>

\* fnNew or fnHooked returns: it leaves what it likes in the volatile
\* registers and pops its return address
inv_return(t) ==
  /\ inv[t].at \in {"fnNew", "fnHooked", "fnNewBack", "fnHookedBack"}
  /\ \E c \in ClobberVals, x \in RaxVals :
       LET rg == inv[t].regs
       IN IF rg["rsp"] \notin InvCells
          THEN /\ inv' = [inv EXCEPT ![t].at = "fault"]
               /\ UNCHANGED <<imem, lastReturn, expect>>
          ELSE InvGoto(t, InvLoad(imem, rg["rsp"]),
                       [r \in Regs |->
                          IF r = "rax" THEN x
                          ELSE IF r \in Volatile THEN c
                          ELSE IF r = "rsp" THEN rg["rsp"] + PtrSize
                          ELSE rg[r]],
                       imem)
  /\ UNCHANGED <<ivariant, reentries, xInv>>

InvNext == \E t \in Threads : inv_call(t) \/ inv_step(t) \/ inv_reenter(t) \/ inv_return(t)

\* the calls of Next and the constructor taking a class name
NameNext == Next \/ \E h \in Handles : ctor_name(h)

LaterOff == ParserOff /\ ScanOff /\ TextOff /\ InvOff
InitCommon == HookInit /\ CpuOff /\ PeOff /\ IboOff /\ LaterOff

\* concurrent callers, no OS failure
Init == InitCommon /\ sequential = FALSE /\ faults = 0
Spec == Init /\ [][Next]_vars

\* one caller at a time, no OS failure
SeqInit == InitCommon /\ sequential = TRUE /\ faults = 0
SeqSpec == SeqInit /\ [][Next]_vars

\* one caller at a time, VirtualAlloc / VirtualProtect may fail
FailInit == InitCommon /\ sequential = TRUE /\ faults = MaxFaults
FailSpec == FailInit /\ [][Next]_vars

\* installs and uninstalls one at a time, while a thread calls through the slot
CallSpec == SeqInit /\ [][CallNext]_vars

\* one call through a slot hooked with a trampoline of any type
CpuInit == HookInit /\ CpuEntry /\ PeOff /\ IboOff /\ LaterOff /\ sequential = TRUE /\ faults = 0
CpuSpec == CpuInit /\ [][CpuNext]_vars

\* parse() of an image, then one containment query
PeInit == HookInit /\ CpuOff /\ PeStart /\ IboOff /\ LaterOff /\ sequential = TRUE /\ faults = 0
PeSpec == PeInit /\ [][PeNext]_vars

\* an ibo32 made from an address, turned back into addresses and an ibo32
IboInit == HookInit /\ CpuOff /\ PeOff /\ IboStart /\ LaterOff /\ sequential = TRUE /\ faults = 0
IboSpec == IboInit /\ [][IboNext]_vars

\* calls of setProcessInfo, parse and getSectionsWithName in any order
ParserSpec == SeqInit /\ [][ParserNext]_vars

\* the parser's calls and the containment queries by section name
QuerySpec == SeqInit /\ [][QueryNext]_vars

\* up to MaxScans calls of scan, each on an image of its own
ScanSpec == SeqInit /\ [][ScanNext]_vars

\* one pattern scan of a .text section
TextSpec == SeqInit /\ [][TextNext]_vars

\* calls through one hooked slot from several threads and from inside the
\* functions the trampoline calls
InvInit ==
  /\ HookInit /\ CpuOff /\ PeOff /\ IboOff /\ ParserOff /\ ScanOff /\ TextOff /\ InvStart
  /\ sequential = TRUE /\ faults = 0
InvSpec == InvInit /\ [][InvNext]_vars

\* concurrent rdataWrite calls for different slots of one table
ProtSpec == SeqInit /\ [][ProtNext]_vars

\* one caller at a time, either constructor, no OS failure
NameSpec == SeqInit /\ [][NameNext]_vars

\* ---------------------------------------------------------------------
\* What a call through a slot runs: each trampoline body ends in
\* jmp [fnHooked], so the call visits the records found by decoding
\* fnHooked until a function that is no trampoline body.
RECURSIVE FnChain(_, _)
FnChain(fn, n) ==
  IF n = 0 \/ ~IsPage(Header(fn)) THEN <<>>
  ELSE <<RecAt(Header(fn))>> \o FnChain(mem[Header(fn) + OffFnHooked], n - 1)

RECURSIVE FnEnd(_, _)
FnEnd(fn, n) ==
  IF n = 0 \/ ~IsPage(Header(fn)) THEN fn
  ELSE FnEnd(mem[Header(fn) + OffFnHooked], n - 1)

SlotChain(s) == FnChain(mem[SlotAddr(s)], NHandles + 1)
SlotEnd(s) == FnEnd(mem[SlotAddr(s)], NHandles + 1)
Range(q) == {q[i] : i \in 1..Len(q)}

\* the hooks whose install on slot s has returned and whose uninstall has not begun
InstalledOn(s) ==
  {h \in Handles : pc[h] = "installed" /\ allocationBase[h] # 0 /\ vftEntry[h] = SlotAddr(s)}
AllQuiet == \A h \in Handles : Quiet(h)

\* the returned calls that targeted slot s
SlotHist(s) == SelectSeq(hist, LAMBDA e : vftEntry[e[2]] = SlotAddr(s))

\* following previous from address a ends at slot s within n hops, through
\* installed hooks only
RECURSIVE PrevReach(_, _, _)
PrevReach(a, s, n) ==
  IF a = SlotAddr(s) THEN TRUE
  ELSE IF n = 0 \/ ~IsPage(a) \/ RecAt(a) \notin InstalledOn(s) THEN FALSE
  ELSE PrevReach(mem[a + OffPrevious], s, n - 1)

\* ---------------------------------------------------------------- C1
\* three installs on slot s followed by the three uninstalls, in any order
ThreeInThreeOut(s) ==
  LET H == SlotHist(s)
  IN /\ Len(H) = 6
     /\ \A i \in 1..3 : H[i][1] = "install"
     /\ \A i \in 4..6 : H[i][1] = "uninstall"

\* C1: after installing three hooks in turn on a slot holding F0 and then
\* uninstalling all three one at a time, in any of the six orders, the slot
\* holds F0 again.
C1_SequentialSymmetry ==
  \A s \in Slots : ThreeInThreeOut(s) => mem[SlotAddr(s)] = OrigFn(s)

\* the middle hook removed first, then the bottom one, then the head
C1_Witness ==
  \E s \in Slots :
    /\ ThreeInThreeOut(s)
    /\ SlotHist(s)[4][2] = SlotHist(s)[2][2]
    /\ SlotHist(s)[5][2] = SlotHist(s)[1][2]
    /\ mem[SlotAddr(s)] = OrigFn(s)

\* ---------------------------------------------------------------- C2
\* C2: between sequential installs and uninstalls, a call through the slot
\* runs the trampoline of every still-installed hook exactly once (each with
\* its own fn_new), runs no uninstalled hook, and then reaches F0.
C2_RoutesThroughInstalled ==
  AllQuiet =>
    \A s \in Slots :
      LET c == SlotChain(s)
      IN /\ Len(c) = Cardinality(InstalledOn(s))
         /\ Range(c) = InstalledOn(s)
         /\ \A h \in Range(c) :
              page[h] = "live" /\ mem[PageOf(h) + OffFnNew] = UserFn(h)
         /\ SlotEnd(s) = OrigFn(s)

\* two hooks still installed after one of three was uninstalled
C2_Witness ==
  /\ AllQuiet
  /\ \E s \in Slots :
       /\ Len(SlotChain(s)) = 2
       /\ Len(SlotHist(s)) = 4
       /\ SlotHist(s)[4][1] = "uninstall"
       /\ SlotEnd(s) = OrigFn(s)

\* ---------------------------------------------------------------- C9
\* C9: between sequential installs and uninstalls, following previous from
\* any installed hook reaches the slot address through installed hooks only,
\* and exactly one installed hook, the one the slot points at, has previous
\* equal to the slot address.
C9_OneAnchorOneHead ==
  AllQuiet =>
    \A s \in Slots :
      InstalledOn(s) # {} =>
        /\ \A h \in InstalledOn(s) : PrevReach(mem[PageOf(h) + OffPrevious], s, NHandles)
        /\ IsPage(Header(mem[SlotAddr(s)]))
        /\ {h \in InstalledOn(s) : mem[PageOf(h) + OffPrevious] = SlotAddr(s)}
             = {RecAt(Header(mem[SlotAddr(s)]))}

\* a chain of two left after the head of a chain of three was uninstalled
C9_Witness ==
  /\ AllQuiet
  /\ \E s \in Slots :
       /\ Cardinality(InstalledOn(s)) = 2
       /\ Len(SlotHist(s)) = 4
       /\ SlotHist(s)[4] = <<"uninstall", SlotHist(s)[3][2]>>

\* ---------------------------------------------------------------------
\* Vocabulary of the concurrent claims.

\* h has read the pointers its edits are based on and has a write still to do
MidEdit(h) ==
  pc[h] \in {"hook_refresh", "hook_wprev", "hook_wslot", "hook_else_refresh",
             "hook_else_write", "dtor_next", "dtor_next_write", "dtor_prev",
             "dtor_prev_hook", "dtor_prev_slot"}

Previous(h) == mem[PageOf(h) + OffPrevious]
MutexOf(h) == mem[PageOf(h) + OffMutex]
Body(h) == BodyOf(PageOf(h))

\* the hooks whose hook() call on slot s has begun (with a page allocated)
OnSlot(s) == {h \in Handles : pc[h] # "idle" /\ vftEntry[h] = SlotAddr(s)}
\* those whose install has returned
Returned(s) == {h \in OnSlot(s) : pc[h] \notin HookPcs}
\* those whose destructor has begun
Leaving(s) == {h \in OnSlot(s) : pc[h] \in DtorPcs \cup {"done"}}

\* the installs on slot s were seen one on top of the other: the first read
\* the original function, each later one read the body of the one before
Stacked(s) ==
  /\ \A g, h \in OnSlot(s) : g # h => snapshot[g] # snapshot[h]
  /\ \A h \in OnSlot(s) :
       snapshot[h] = OrigFn(s) \/ \E g \in OnSlot(s) \ {h} : snapshot[h] = Body(g)
\* the last installer of a stacked slot
Top(s) == CHOOSE h \in OnSlot(s) : \A g \in OnSlot(s) : snapshot[g] # Body(h)

RECURSIVE SnapChain(_, _)
SnapChain(fn, n) ==
  IF n = 0 \/ ~IsPage(Header(fn)) THEN <<>>
  ELSE <<RecAt(Header(fn))>> \o SnapChain(snapshot[RecAt(Header(fn))], n - 1)
\* the stacked hooks of slot s, last installed first, without those leaving
Remaining(s) ==
  SelectSeq(SnapChain(Body(Top(s)), NHandles), LAMBDA h : h \notin Leaving(s))

\* ---------------------------------------------------------------- C3
\* C3 (as claimed): when two installs that both first read the same slot
\* content P (the original function, or the body of the head of a chain
\* installed before) have returned, the slot points at one's body, that
\* hook's fn_hooked is the other's body, the other's fn_hooked is P, the
\* lower hook's previous is the upper hook and the upper hook's previous is
\* the slot address.
C3_BothInstallersChained ==
  \A s \in Slots : \A a, b \in Handles :
    ( /\ a # b
      /\ {a, b} \subseteq InstalledOn(s)
      /\ snapshot[a] = snapshot[b]
      /\ \A c \in Handles \ {a, b} :
           pc[c] = "idle" \/ (c \in InstalledOn(s) /\ c \in Range(FnChain(snapshot[a], NHandles))) )
    => \E upper, lower \in {a, b} :
         /\ upper # lower
         /\ mem[SlotAddr(s)] = Body(upper)
         /\ HookedFn(upper) = Body(lower)
         /\ HookedFn(lower) = snapshot[a]
         /\ Previous(lower) = PageOf(upper)
         /\ Previous(upper) = SlotAddr(s)

\* ---------------------------------------------------------------- C4
\* C4 (as claimed): at quiescence the chain reached from the slot through
\* fn_hooked has as many hops as installs minus uninstalls have completed,
\* every hop is a live record carrying the sentinel, previous from each of
\* them ends at the slot address, and with no hook left the slot holds F0.
C4_QuiescentChain ==
  AllQuiet =>
    \A s \in Slots :
      /\ Len(SlotChain(s)) = Cardinality(InstalledOn(s))
      /\ \A h \in Range(SlotChain(s)) :
           /\ page[h] = "live"
           /\ mem[PageOf(h) + OffMagic] = MAGIC
           /\ PrevReach(Previous(h), s, NHandles)
      /\ InstalledOn(s) = {} => mem[SlotAddr(s)] = OrigFn(s)

\* ---------------------------------------------------------------- C5
\* one install on a hooked slot (the last of the stacked installs) and the
\* uninstall of one hook installed before it
InstallVsUninstall(s) ==
  /\ Stacked(s)
  /\ Cardinality(OnSlot(s)) >= 2
  /\ Cardinality(Leaving(s)) = 1
  /\ Top(s) \notin Leaving(s)

\* C5 (as claimed): when an install on a hooked slot meets the uninstall of
\* a hook of that chain, the two never are in the middle of their pointer
\* edits together, both return, and after both have returned the chain is
\* the new hook on top of exactly the hooks not uninstalled, ends at F0, and
\* the new hook's previous is the slot address.
C5_InstallerVsUninstaller ==
  \A s \in Slots :
    InstallVsUninstall(s) =>
      /\ ~crashed
      /\ \A c \in Leaving(s) : ~(MidEdit(Top(s)) /\ MidEdit(c))
      /\ AllQuiet =>
           /\ SlotChain(s) = Remaining(s)
           /\ SlotEnd(s) = OrigFn(s)
           /\ Previous(Top(s)) = SlotAddr(s)

\* ---------------------------------------------------------------- C6
\* two uninstalls of hooks of one chain, and no install since the first of
\* them began
TwoUninstallers(s) ==
  /\ Stacked(s)
  /\ Cardinality(Leaving(s)) = 2
  /\ \A u \in Leaving(s) : peers[u] = OnSlot(s)

\* C6 (as claimed): two uninstallers of different hooks of one chain lock
\* the mutex of the chain's current head, both return, and after both have
\* returned the chain is the remaining hooks in their order (F0 if none).
C6_TwoUninstallers ==
  \A s \in Slots :
    TwoUninstallers(s) =>
      /\ ~crashed
      /\ \A u \in Leaving(s) :
           pc[u] = "dtor_read" =>
             /\ IsPage(Header(mem[SlotAddr(s)]))
             /\ page[RecAt(Header(mem[SlotAddr(s)]))] = "live"
             /\ mutexRef[u] = MutexOf(RecAt(Header(mem[SlotAddr(s)])))
      /\ AllQuiet =>
           /\ SlotChain(s) = Remaining(s)
           /\ SlotEnd(s) = OrigFn(s)

\* ---------------------------------------------------------------- C7
\* C7 (as claimed): no two operations on one slot are in the middle of
\* their pointer edits at the same time.
C7_EditsSerialized ==
  \A s \in Slots : \A g, h \in OnSlot(s) : g # h => ~(MidEdit(g) /\ MidEdit(h))

\* ---------------------------------------------------------------- C8
\* C8 (as claimed): all hooks installed on one slot hold the same mutex
\* instance.
C8_SharedChainLock ==
  \A s \in Slots : \A g, h \in InstalledOn(s) : MutexOf(g) = MutexOf(h)

\* ---------------------------------------------------------------- C10
\* the positions whose step is one rdataWrite call
WritePcs == {"hook_wprev", "hook_wslot", "hook_else_write", "dtor_next_write",
             "dtor_prev_hook", "dtor_prev_slot"}

\* the slots and the previous / fnHooked fields of the records other than h's
Guarded(h) ==
  SlotAddrs \cup {PageOf(g) + o : g \in Handles \ {h}, o \in {OffPrevious, OffFnHooked}}

\* C10 (as claimed): once an rdataWrite of an install or uninstall has
\* returned false, that write and every later step of the operation leave the
\* slot and the other hooks' previous and fnHooked as they were, the operation
\* makes no further rdataWrite call, and an install returns with its page
\* released.
C10_FailedWriteNoEffect ==
  [][\A h \in Handles :
       pc[h] \in HookPcs \cup DtorPcs =>
         /\ writeFailed'[h] => \A a \in Guarded(h) : mem'[a] = mem[a]
         /\ writeFailed[h] => ~(pc[h] \in WritePcs /\ pc'[h] # pc[h])
         /\ (writeFailed'[h] /\ pc[h] \in HookPcs /\ pc'[h] = "installed")
              => page'[h] # "live"]_vars

\* ---------------------------------------------------------------- C11
\* three installs on slot s, then the uninstall of the second one installed
InstallThreeRemoveMiddle(s) ==
  LET H == SlotHist(s)
  IN /\ AllQuiet
     /\ Len(H) = 4
     /\ \A i \in 1..3 : H[i][1] = "install"
     /\ H[4] = <<"uninstall", H[2][2]>>

\* C11 (as claimed): after installing H1, H2, H3 in that order and then
\* uninstalling H2, a call through the slot runs H1, then H3, then F0.
C11_RoutesH1ThenH3 ==
  \A s \in Slots :
    InstallThreeRemoveMiddle(s) =>
      /\ SlotChain(s) = <<SlotHist(s)[1][2], SlotHist(s)[3][2]>>
      /\ SlotEnd(s) = OrigFn(s)

\* C11 (amended): after installing H1, H2, H3 in that order and then
\* uninstalling H2, a call through the slot runs H3 (the last installed, the
\* head), then H1, then F0.
C11_RoutesH3ThenH1 ==
  \A s \in Slots :
    InstallThreeRemoveMiddle(s) =>
      /\ SlotChain(s) = <<SlotHist(s)[3][2], SlotHist(s)[1][2]>>
      /\ SlotEnd(s) = OrigFn(s)

\* the second of three hooks has been uninstalled and two trampolines remain
C11_Witness ==
  \E s \in Slots :
    /\ InstallThreeRemoveMiddle(s)
    /\ page[SlotHist(s)[2][2]] = "freed"
    /\ Len(SlotChain(s)) = 2

\* ---------------------------------------------------------------- C12
\* address v lies in the trampoline page of handle h
InPage(v, h) == PageOf(h) <= v /\ v < PageOf(h) + PageSize

\* the pointers a chain is made of: the slots, and previous and fnHooked of
\* the records still allocated
ChainPointers ==
  {mem[a] : a \in SlotAddrs}
    \cup {Previous(g) : g \in {x \in Handles : page[x] = "live"}}
    \cup {HookedFn(g) : g \in {x \in Handles : page[x] = "live"}}

\* C12: after a sequential uninstall of any hook (head, middle or bottom),
\* no slot and no remaining hook's previous or fnHooked holds an address
\* inside a freed trampoline page.
C12_NoPointerIntoFreedPage ==
  AllQuiet =>
    \A h \in Handles : page[h] = "freed" => \A v \in ChainPointers : ~InPage(v, h)

\* the bottom hook of a chain of three has been uninstalled, two remain
C12_Witness ==
  /\ AllQuiet
  /\ \E s \in Slots :
       /\ Len(SlotHist(s)) = 4
       /\ SlotHist(s)[4] = <<"uninstall", SlotHist(s)[1][2]>>
       /\ page[SlotHist(s)[1][2]] = "freed"
       /\ Cardinality(InstalledOn(s)) = 2

\* ---------------------------------------------------------------- C13
\* what the constructor tells its caller: it has no result and throws nothing
\* (lines 321-327, 335-338)
Reported(h) == "nothing"

\* the last call that returned is the install of handle h, made on slot s
\* while it held the original function
InstalledOnOriginal(h, s) ==
  /\ AllQuiet
  /\ hist # <<>>
  /\ hist[Len(hist)] = <<"install", h>>
  /\ vftEntry[h] = SlotAddr(s)
  /\ snapshot[h] = OrigFn(s)

\* C13: installing fn at index i of table V, by class name or by table
\* pointer, while V[i] holds a non-hook function F0 leaves V[i] pointing at
\* header address plus header size (not at the header), and the header has
\* fn_new = fn, fn_hooked = F0 and previous = &V[i].
C13_InstallPostcondition ==
  [][\A h \in Handles, s \in Slots :
       ( /\ pc[h] \in HookPcs
         /\ pc'[h] = "installed"
         /\ vftEntry[h] = SlotAddr(s)
         /\ snapshot[h] = OrigFn(s) )
       => /\ mem'[VftBase + PtrSize * s] = allocationBase'[h] + HookBaseSize
          /\ mem'[VftBase + PtrSize * s] # allocationBase'[h]
          /\ mem'[allocationBase'[h] + OffFnNew] = UserFn(h)
          /\ mem'[allocationBase'[h] + OffFnHooked] = OrigFn(s)
          /\ mem'[allocationBase'[h] + OffPrevious] = VftBase + PtrSize * s]_vars

\* an install by class name and one by table pointer have each returned on
\* a slot holding the original function
C13_Witness ==
  /\ \E h \in Handles, s \in Slots : InstalledOnOriginal(h, s) /\ className[h] = "Base"
  /\ \E g \in Handles : className[g] = "" /\ pc[g] = "done" /\ snapshot[g] = OrigFn(0)

\* ---------------------------------------------------------------- C14
\* handle h was constructed with a class name the index does not hold
AbsentName(h) == className[h] # "" /\ className[h] \notin DOMAIN classRTTI

C15_ProtectionRestored ==
  /\ ~wfault
  /\ (\A w \in Writers : wpc[w] = "call")
       => \A n \in DOMAIN protect : protect[n] = "R"

\* ---------------------------------------------------------------- C16
\* a thread is inside asmRaw of hook h, or will return into it from fnNew
InsideTrampoline(h) == callIn = h /\ callAt \in {"body", "fnNew", "resume"}

\* C16: uninstall frees the trampoline page right after unlocking and never
\* waits for callers: once the destructor of h has unlocked, its VirtualFree
\* can run whether or not a thread is inside asmRaw of h (or due to return
\* into it from fnNew) ...
C16_FreeNeverWaits ==
  \A h \in Handles : (pc[h] = "dtor_free" /\ Turn(h)) => ENABLED dtor_free(h)

\* ... and so a thread that entered through the slot is inside the freed page
C16_Witness ==
  \E h \in Handles : InsideTrampoline(h) /\ page[h] = "freed"

\* ---------------------------------------------------------------- C17
\* the header field a listing label names
FieldOff(l) ==
  CASE l = "context" -> OffContext
    [] l = "fnNew" -> OffFnNew
    [] l = "fnHooked" -> OffFnHooked
    [] l = "extra" -> OffExtra

\* C17 (as claimed): in every variant, each RIP-relative operand the listing
\* labels [context], [fnNew], [fnHooked] or [extra] resolves (end of the
\* instruction plus signed displacement) to the header field of that name:
\* body start minus 40, 24, 16 and 8.
C17_RipOperandsHitFields ==
  (at = "tramp" /\ asmRaw(variant)[ip][6] # "")
    => /\ EffAddr(asmRaw(variant), ip, regs)
            = Header(TrampBody) + FieldOff(asmRaw(variant)[ip][6])
       /\ TrampBody - EffAddr(asmRaw(variant), ip, regs)
            = (CASE asmRaw(variant)[ip][6] = "context" -> 40
                 [] asmRaw(variant)[ip][6] = "fnNew" -> 24
                 [] asmRaw(variant)[ip][6] = "fnHooked" -> 16
                 [] asmRaw(variant)[ip][6] = "extra" -> 8)

\* ---------------------------------------------------------------- C18
\* C18 (as claimed): in every variant the function invoked second is
\* reached, and receives rcx, rdx, r8 and r9 as they were at the entry of
\* the trampoline, whatever the function invoked first left in them and in
\* rax.
C18_SecondCallGetsArguments ==
  /\ at \notin {"fault", "wild"}
  /\ (at = "caller" => Len(entered) = 2)
  /\ (at \in {"fnNew", "fnHooked"} /\ Len(entered) = 2)
       => \A r \in ArgRegs : regs[r] = EntryRegs[r]

\* ---------------------------------------------------------------- C19
\* the headers of the image that parse() files under name, in header order
HeadersNamed(name) == SelectSeq(pe.headers, LAMBDA h : CString(h) = name)

\* C19 (as claimed): parse yields exactly the K sections of the headers, in
\* header order (per name, as the map keeps them), and the IBO containment
\* query is true iff v lies in [start, start + virtual_size) of some section
\* of the list, for all header values of virtual_addr and virtual_size.
C19_ParseAndContainment ==
  /\ pe.pc \in {"parsed", "queried"} =>
       /\ DOMAIN pe.sectionMap = {CString(pe.headers[k]) : k \in DOMAIN pe.headers}
       /\ \A n \in DOMAIN pe.sectionMap :
            /\ Len(pe.sectionMap[n]) = Len(HeadersNamed(n))
            /\ \A k \in DOMAIN pe.sectionMap[n] :
                 /\ pe.sectionMap[n][k].start = HeadersNamed(n)[k].virtual_addr
                 /\ pe.sectionMap[n][k].size = HeadersNamed(n)[k].virtual_size
  /\ pe.pc = "queried" =>
       (pe.found <=> \E k \in DOMAIN pe.sectionMap[pe.name] :
                       InRange(pe.v, pe.sectionMap[pe.name][k].start,
                               pe.sectionMap[pe.name][k].size))

\* ---------------------------------------------------------------- C20
\* unsigned order of two pointers
RECURSIVE PtrLess(_, _)
PtrLess(a, b) ==
  IF a = <<>> THEN FALSE
  ELSE IF a[Len(a)] # b[Len(b)] THEN a[Len(a)] < b[Len(b)]
  ELSE PtrLess(SubSeq(a, 1, Len(a) - 1), SubSeq(b, 1, Len(b) - 1))

\* A - B, as a number, is representable as a signed 32-bit integer
InWindow(A, B) ==
  IF PtrLess(A, B)
  THEN LET d == SubPtr(B, A)
       IN d[4] = 0 /\ d[3] = 0 /\ (d[2] < W16 \div 2 \/ (d[2] = W16 \div 2 /\ d[1] = 0))
  ELSE LET d == SubPtr(A, B)
       IN d[4] = 0 /\ d[3] = 0 /\ d[2] < W16 \div 2

\* C20: for any base B and address A with A - B representable as a signed
\* 32-bit integer, the IBO built from (A, B) converts back to A with base B,
\* and converting it to an address with any other base B' and back to an IBO
\* with B' yields the same IBO value.
C20_IboRoundTrip ==
  InWindow(ibo.A, ibo.B) =>
    /\ ibo.pc \in {"back", "moved", "done"} => ibo.back = ibo.A
    /\ ibo.pc = "done" => ibo.val2 = ibo.val

\* a negative offset, bases in different 4 GB windows, all four steps taken
C20_Witness ==
  /\ ibo.pc = "done"
  /\ InWindow(ibo.A, ibo.B)
  /\ ibo.val[2] >= W16 \div 2
  /\ ibo.A[3] # ibo.B[3]
  /\ ibo.B2 # ibo.B
  /\ ibo.moved # ibo.A

\* ---------------------------------------------------------------- C21
\* the PE header, the section table or one of the section headers computed
\* from the image lies beyond the module's loaded size
OffsetsBeyond(img) ==
  \/ img.lfanew >= img.size
  \/ TableOff(img) >= img.size
  \/ \E i \in 0..(img.count - 1) : HeaderOff(img, i) + 40 > img.size

\* C21 (as claimed): parse fails, and reads nothing at or beyond base + size,
\* whenever the PE header offset, the section table offset or any of the
\* section headers computed from the image lies beyond the loaded size.
C21_TruncatedRejected ==
  (lastCall.op = "parse" /\ pInfo # <<>> /\ OffsetsBeyond(pInfo[1]))
    => (lastCall.ret = "false" /\ ~lastCall.beyond)

\* ---------------------------------------------------------------- C22
\* the image does not start with MZ, or the signature at e_lfanew is not PE
BadMagic(img) == ~img.mz \/ (img.lfanew + 4 <= img.size /\ ~img.sig)
NoSectionVisible == \A name \in LookupNames : getSectionsWithName(name) = "none"

\* C22: parse returns failure when the image does not start with the MZ
\* signature or the PE signature at e_lfanew does not match, and after such
\* a failed parse the by-name lookup returns none for every name, even if an
\* earlier parse had succeeded.
C22_BadMagicRejected ==
  (lastCall.op = "parse" /\ pInfo # <<>> /\ BadMagic(pInfo[1]))
    => /\ lastCall.ret = "false"
       /\ NoSectionVisible
       /\ looked.ret = "none"

C22_Witness ==
  /\ parsedOnce
  /\ lastCall.op = "parse"
  /\ pInfo # <<>>
  /\ pInfo[1].mz /\ ~pInfo[1].sig /\ pInfo[1].lfanew < pInfo[1].size
  /\ lastCall.ret = "false"
  /\ looked = [name |-> ".text", ret |-> "none"]

\* ---------------------------------------------------------------- C23
\* C23 (as claimed): parse returns false, rather than faulting, when no
\* ProcessInfo is supplied and retrieving the current module's information
\* fails, so that the stored ProcessInfo is empty.
C23_NoProcessInfoReturnsFalse ==
  (lastCall.op = "parse" /\ pInfo = <<>>) => lastCall.ret = "false"

\* ---------------------------------------------------------------- C29
\* C29: after any call to setProcessInfo (direct, from the constructor, or
\* from parse) the by-name lookup returns none for every name until a later
\* parse succeeds, and the sections a lookup can return are those of the
\* stored process info, never those parsed for a previous one.
C29_LookupEmptyUntilParsed ==
  /\ ~(lastCall.op = "parse" /\ lastCall.ret = "true")
       => (NoSectionVisible /\ looked.ret = "none")
  /\ sectionMap # <<>>
       => (pInfo # <<>> /\ sectionMap[1] = SectionNames(pInfo[1]))

\* sections were parsed, the process info was replaced, and a lookup of a
\* name the old image had was made
C29_Witness ==
  /\ parsedOnce
  /\ lastCall.op = "setProcessInfo"
  /\ pInfo # <<>>
  /\ looked = [name |-> ".text", ret |-> "none"]

\* ---------------------------------------------------------------- C24
\* a COL whose chain is as the specification asks: signature 1, the type
\* descriptor in .data, the class hierarchy descriptor and its base class
\* array in .rdata, and a name that demangles
InSpan(a, lo, size) == a >= lo /\ a < lo + size
InRdata(img, a) ==
  InSpan(a, RdataRva, PtrSize * Len(img.slots)) \/ InSpan(a, StructRva, PtrSize * Len(StructSlots))
ChainValid(img, c) ==
  /\ ColTable[c].signature = 1
  /\ InSpan(ColTable[c].iboTypeDescriptor, DataRva, PageSize)
  /\ InRdata(img, ColTable[c].iboClassDescriptor)
  /\ InRdata(img, ColTable[c].iboBaseClassDescriptor)
  /\ demangleName(ColTable[c].name) # ""
\* the slots of the first .rdata section that hold a pointer to a valid COL
\* and are followed by a slot holding a pointer into .text
Referenced(img) ==
  {i \in 0..(Len(img.slots) - 2) :
     /\ \E c \in Cols : img.slots[i + 1] = ColPtr(c) /\ ChainValid(img, c)
     /\ InSpan(img.slots[i + 2], TextRva, PageSize)}
NameAtSlot(img, i) == demangleName(ColTable[ColOf(img.slots[i + 1])].name)
DistinctNames(img) ==
  \A i, j \in Referenced(img) : NameAtSlot(img, i) = NameAtSlot(img, j) => i = j

\* C24 (as claimed): in an image with N valid COLs of distinct names, each
\* referenced from a pointer-aligned .rdata slot that is followed by a slot
\* pointing into .text, wherever the slots lie and whatever their
\* neighbours hold, a first scan returns with exactly those N names in the
\* map, each with the address of the slot after its COL pointer. (The
\* memory behind the section is taken to hold no pointer.)
C24_SweepFindsEveryTable ==
  (phase = "returned" /\ scanRet /\ scans = 1 /\ DistinctNames(image)
     /\ image.after = <<Junk, Junk>>)
    => /\ DOMAIN classMap = {NameAtSlot(image, i) : i \in Referenced(image)}
       /\ \A i \in Referenced(image) :
            /\ NameAtSlot(image, i) \in DOMAIN classMap
            /\ classMap[NameAtSlot(image, i)].vft = RdataRva + PtrSize * (i + 1)

\* ---------------------------------------------------------------- C25
\* the candidate of the round about to run: the value of the slot after pCOL
Candidate == ReadSlot(image, sec, pCOL + 1)
RoundRuns == phase = "sweep" /\ pCOL < Len(SlotsOf(image, sec))
Rejected ==
  /\ RoundRuns
  /\ Candidate # Unmapped
  /\ \/ ~InRdata(image, Candidate)
     \/ /\ ReadSlot(image, sec, pCOL + 2) # Unmapped
        /\ \/ ~InSpan(ReadSlot(image, sec, pCOL + 2), TextRva, PageSize)
           \/ ~ChainValid(image, ColOf(Candidate))

\* C25: an entry is inserted only for a candidate that passes every
\* validation (signature 1, type descriptor in .data, class hierarchy
\* descriptor in .rdata, its base class array in .rdata, a non-empty
\* demangled name), under that name; a candidate that fails one of them
\* adds no entry and the scan goes on with the next candidate.
C25_OnlyValidatedInserted ==
  [][ /\ \A n \in (DOMAIN classMap') \ (DOMAIN classMap) :
           /\ RoundRuns
           /\ InRdata(image, Candidate)
           /\ ChainValid(image, ColOf(Candidate))
           /\ n = demangleName(ColTable[ColOf(Candidate)].name)
           /\ classMap'[n].col = ColOf(Candidate)
      /\ Rejected => (classMap' = classMap /\ phase' = "sweep" /\ pCOL' > pCOL)
    ]_vars

\* a scan that met a candidate with a bad signature went on and returned,
\* with the entry an earlier scan had inserted for a valid one
C25_Witness ==
  /\ phase = "returned"
  /\ scanRet
  /\ image.slots = <<Junk, ColPtr(4), Fn>>
  /\ <<1, 1>> \in derefd
  /\ DOMAIN classMap = {"A"}

\* ---------------------------------------------------------------- C26
\* C26: a name that is in the map keeps its record: a later candidate of the
\* same name, in the same scan or in a later one, neither replaces the
\* record nor changes a field of it.
C26_FirstRecordKept ==
  [][\A n \in DOMAIN classMap : n \in DOMAIN classMap' /\ classMap'[n] = classMap[n]]_vars

\* a second scan validated another COL of the name A, and the record of the
\* first scan is still there
C26_Witness ==
  /\ phase = "returned"
  /\ scans = 2
  /\ dups > 0
  /\ image.slots = <<Junk, ColPtr(3), Fn>>
  /\ "A" \in DOMAIN mapAtEntry
  /\ classMap["A"].col = 1

\* ---------------------------------------------------------------- C27
\* what the image's headers say, without the parser
SectionAbsent(img) == ~({".text", ".data", ".rdata"} \subseteq SectionNames(img.hdr))

\* C27: a scan that returns returns failure, having inserted no entry,
\* exactly when the PE parse fails or one of .text, .data, .rdata is absent;
\* otherwise it returns success, whatever candidates it rejected.
C27_FailureOnlyAtInitialization ==
  phase = "returned"
    => /\ scanRet = ~(BadMagic(image.hdr) \/ SectionAbsent(image))
       /\ ~scanRet => classMap = mapAtEntry

\* a scan of an image without .data returned failure and left the entry of
\* the scan before it alone
C27_Witness ==
  /\ phase = "returned"
  /\ ~scanRet
  /\ scans = 2
  /\ image.hdr.count = 2
  /\ ~BadMagic(image.hdr)
  /\ mapAtEntry # EmptyMap

\* ---------------------------------------------------------------- C30
\* C30 (as claimed): a scan that returns success has read as candidates
\* exactly the pointer-aligned slots of [start, end) of each .rdata section,
\* each once, and no scan dereferences a slot at or beyond a section's end.
C30_SweepStaysInSection ==
  /\ \A d \in derefd : d[2] < Len(SlotsOf(image, d[1]))
  /\ (phase = "returned" /\ scanRet)
       => /\ {examined[j] : j \in 1..Len(examined)} =
               UNION {{<<k, i>> : i \in 0..(Len(SlotsOf(image, k)) - 1)} :
                        k \in 1..Len(RdataOf(image))}
          /\ \A j, l \in 1..Len(examined) : examined[j] = examined[l] => j = l

\* ---------------------------------------------------------------- C28
\* the masked template at offset P, lane by lane
TemplateAt(txt, P) ==
  \A i \in 1..Window : BitAnd(ByteAt(txt, P + i - 1), 255 - bitmask[i]) = signature[i]

\* C28 (as claimed): when the pattern scan has returned success, every
\* offset P of the section at which the masked template matches and the
\* consistency checks pass has been evaluated as a candidate; none is
\* skipped when the window advances after finding no first byte.
C28_EveryOffsetConsidered ==
  (tphase = "returned" /\ tRet)
    => \A P \in 0..(Len(text) - 1) :
         (TemplateAt(text, P) /\ Consistent(text, P)) => P \in evaluated

\* ---------------------------------------------------------------- C31
\* the fields of the two ModR/M bytes and of the two REX prefixes
ModOf(b) == b \div 64
RegOf(b) == (b \div 8) % 8
RmOf(b) == b % 8
RexR(b) == (b \div 4) % 2

\* C31 (as claimed): an offset is accepted as a candidate only if the mov
\* ModR/M is neither RIP-relative (mod = 00, rm = 101) nor SIB-addressed
\* (rm = 100), the REX.R bits of the lea and the mov are equal, and the reg
\* fields of the two ModR/M bytes are equal.
C31_AcceptedPairsAreConsistent ==
  \A P \in evaluated :
    /\ ~(ModOf(movOperands(text, P)) = 0 /\ RmOf(movOperands(text, P)) = 5)
    /\ RmOf(movOperands(text, P)) # 4
    /\ RexR(leaRexPrefix(text, P)) = RexR(movRexPrefix(text, P))
    /\ RegOf(leaOperands(text, P)) = RegOf(movOperands(text, P))

\* ---------------------------------------------------------------- C32
\* C32: between sequential installs and uninstalls on one slot, previous
\* and fn_hooked are inverse to each other: for installed hooks g and h,
\* h.fn_hooked is the body of g exactly when g.previous is the record of h.
C32_PreviousInvertsFnHooked ==
  AllQuiet =>
    \A s \in Slots : \A g, h \in InstalledOn(s) :
      (HookedFn(h) = Body(g)) <=> (Previous(g) = PageOf(h))

\* the middle hook of three was uninstalled and the two hooks left are
\* linked to each other in both directions
C32_Witness ==
  \E s \in Slots :
    /\ InstallThreeRemoveMiddle(s)
    /\ \E g, h \in InstalledOn(s) :
         /\ g # h
         /\ HookedFn(h) = Body(g)
         /\ Previous(g) = PageOf(h)

\* ---------------------------------------------------------------- C33
\* C33 (as claimed): every invocation through the trampoline ends at the
\* return address of its own caller, also when two threads call through the
\* slot at the same time and when fnNew or fnHooked calls the slot again
\* before the first invocation has returned.
C33_ReturnsToOwnCaller ==
  /\ lastReturn.want = lastReturn.got
  /\ \A t \in Threads : inv[t].at \notin {"fault", "wild"}

\* ---------------------------------------------------------------- C34
\* the record whose previous or fnHooked the next step of h writes (0: the
\* next step of h is no such write)
FieldWrite(h) ==
  CASE pc[h] = "hook_wprev" -> prevHook[h]
    [] pc[h] = "dtor_next_write" -> nextHook[h]
    [] pc[h] = "dtor_prev_hook" -> prevHook[h]
    [] OTHER -> 0

\* C34 (as claimed): under concurrent installs and uninstalls on one slot no
\* read, write or lock of hook() or the destructor touches a record (or the
\* mutex of a record) that has been freed, and every write of a previous or
\* fnHooked field goes to a record that carries the sentinel.
C34_AccessesStayOnLiveRecords ==
  /\ ~ub
  /\ \A h \in Handles :
       (FieldWrite(h) # 0 /\ ~crashed) => mem[FieldWrite(h) + OffMagic] = MAGIC

\* ---------------------------------------------------------------- C35
NCallers == 2
\* the threads that call hook() and the destructor at the same time
Callers == 1..NCallers

\* a step inside a call of hook() or of the destructor that has begun
Running(h) ==
  \/ hook_magic(h)
  \/ hook_lock(h)
  \/ hook_reread(h)
  \/ hook_wprev(h)
  \/ hook_wslot(h)
  \/ hook_unlock(h)
  \/ hook_else(h)
  \/ hook_else_write(h)
  \/ dtor_walk(h)
  \/ dtor_lock(h)
  \/ dtor_read(h)
  \/ dtor_next(h)
  \/ dtor_prev(h)
  \/ dtor_unlock(h)
  \/ dtor_free(h)

CallersNext == \E h \in Callers : hook_begin(h) \/ dtor_begin(h) \/ Running(h)

\* concurrent callers under a fair scheduler: a thread inside a call that can
\* take its next step eventually takes it; when a call begins is the caller's
\* choice
FairSpec == Init /\ [][CallersNext]_vars /\ \A h \in Callers : WF_vars(Running(h))

\* C35 (as claimed): under fair scheduling every call of hook() and of the
\* destructor that has begun eventually returns, whatever the other callers
\* on the slot do.
C35_EveryCallReturns == \A h \in Callers : (~Quiet(h)) ~> Quiet(h)

\* ---------------------------------------------------------------- C36
\* hook() called with any index of the table
hook_at(h) ==
  /\ pc[h] = "idle"
  /\ Turn(h)
  /\ \E s \in TableSlots : hook_alloc(h, s)
  /\ UNCHANGED extVars

TableNext == \E h \in Handles : hook_at(h) \/ dtor_begin(h) \/ Running(h)

\* installs and uninstalls, one after another, on the entries of one table
TableSpec == SeqInit /\ [][TableNext]_vars

\* the handle whose call takes the step
Acting == {h \in Handles : pc'[h] # pc[h]}

\* the hooks on the entry at address e once the step is taken, and the cells
\* the step may change: the entry and the fields of those hooks' records
HooksAt(e) == {g \in Handles : vftEntry'[g] = e /\ page'[g] # "none"}
FrameCells(e) == {e} \cup {PageOf(g) + o : g \in HooksAt(e), o \in FieldOffs}

FrameStep(h) ==
  /\ \A a \in DOMAIN mem : a \notin FrameCells(vftEntry'[h]) => mem'[a] = mem[a]
  /\ \A g \in Handles :
       page[g] # "none" => mem'[PageOf(g) + OffFnNew] = mem[PageOf(g) + OffFnNew]

C37_AbsentNameAnswersFalse ==
  (asked.op # "" /\ getSectionsWithName(asked.name) = "none") => asked.ret = "false"

====
